---- MODULE Spec2Model ----
(***************************************************************************)
(* Voice notification server (Packs/pai-voice-system/src/VoiceServer).     *)
(*                                                                         *)
(* The model follows server.ts and linux-service/qwen3-tts.ts at the       *)
(* granularity of the event loop: every action is one callback run to its  *)
(* next suspension point (an await on real I/O or on a child process).     *)
(* The continuation of processQueue after its await on                     *)
(* processNotificationVoice is the action LoopResume.                      *)
(*                                                                         *)
(* Array indices are 1-based here and 0-based in the source.               *)
(***************************************************************************)
EXTENDS Integers, Sequences, FiniteSets, TLC

\* Bounds of the model (not program constants).
MaxReq == 3      \* number of HTTP requests that reach a POST handler
MaxSent == 2     \* largest number of sentences splitIntoSentences returns
MaxWindows == 1  \* the clock reaches the end of this many rate windows

\* server.ts:514-515
RATE_LIMIT == 10
RATE_WINDOW == 60000

\* The values Date.now() takes (ms after start-up): the instants around the
\* ends of the rate windows that open at start-up.
Instants ==
  {w * RATE_WINDOW + d : w \in 0..MaxWindows, d \in {-1, 0, 1}} \cap Nat

Reqs == 1..MaxReq

Engines == {"piper", "qwen3", "os-tts"}

VARIABLES
  ELEVENLABS_API_KEY,      \* BOOLEAN: the cloud credential is set
  envEngine,               \* process.env.PAI_TTS_ENGINE ("unset": absent or empty)
  PAI_TTS_ENGINE,          \* preferred local engine (piper-tts.ts:16)
  piperAvailable,          \* result of checkPiperAvailable()
  qwen3Available,          \* result of checkQwen3Available()
  LINUX_AUDIO_PLAYER_WAV,  \* BOOLEAN: detectLinuxAudioPlayer('wav') is not null
  LINUX_AUDIO_PLAYER_MP3,  \* BOOLEAN: detectLinuxAudioPlayer('mp3') is not null
  LINUX_TTS,               \* BOOLEAN: detectLinuxTTS() is not null
  pactl,                   \* what the stream query of checkAudioStatus can do
  clients,                 \* the rate-limit keys (X-Forwarded-For or 'localhost')
  rmRace,                  \* BOOLEAN: an rm child can outlast the callback that spawned it
  selectedLocalEngine,     \* server.ts:379
  initDone,                \* the await at server.ts:650 has returned
  handler,                 \* per request: position of the fetch handler
  response,                \* per request: HTTP status sent (0 = none yet)
  voiceEnabled,            \* per request: data.voice_enabled !== false
  queue,                   \* AudioQueue.queue
  isProcessing,            \* AudioQueue.isProcessing
  completion,              \* per item: state of the enqueue promise
  pnv,                     \* per item: the processNotificationVoice call
  audioStatus,             \* processQueue: result of the latest checkAudioStatus()
  now,                     \* Date.now()
  requestCounts,           \* server.ts:513, per key (count 0 = no entry)
  reply,                   \* the latest response a handler returned at once
  admitted,                \* history: per key and instant, requests admitted
  seen,                    \* history: per key, requests since its window opened
  tempFiles,               \* temp files of returned calls, still on disk
  pure,                    \* one call of a function of the request path: fn, arg, result
  enqueued,                \* history: items in the order enqueue was called
  started                  \* history: items in the order they were shifted

vars == <<ELEVENLABS_API_KEY, envEngine, PAI_TTS_ENGINE, piperAvailable, qwen3Available,
          LINUX_AUDIO_PLAYER_WAV, LINUX_AUDIO_PLAYER_MP3, LINUX_TTS, pactl,
          clients, rmRace, tempFiles, pure, voiceEnabled, selectedLocalEngine, initDone, handler, response,
          queue, isProcessing, completion, pnv, audioStatus, enqueued, started,
          now, requestCounts, reply, admitted, seen>>

config == <<ELEVENLABS_API_KEY, envEngine, PAI_TTS_ENGINE, piperAvailable, qwen3Available,
            LINUX_AUDIO_PLAYER_WAV, LINUX_AUDIO_PLAYER_MP3, LINUX_TTS, pactl,
            clients, rmRace>>

\* The rate limiter's state, the clock and the latest direct response.
gate == <<now, requestCounts, reply, admitted, seen>>

----------------------------------------------------------------------------
\* Engine selection (engine-selection.ts)

\* process.env.PAI_TTS_ENGINE || "qwen3"
EngineOrDefault(e) == IF e = "unset" THEN "qwen3" ELSE e

\* Variant: a requested engine that is unavailable ends the selection with
\* the OS speech tool instead of continuing with auto-detection.
SelectLocalTTSEngineNoAutoDetect(pref, piper, qwen3) ==
  IF pref = "piper" THEN (IF piper THEN "piper" ELSE "os-tts")
  ELSE IF pref = "qwen3" THEN (IF qwen3 THEN "qwen3" ELSE "os-tts")
  ELSE IF piper THEN "piper"
  ELSE IF qwen3 THEN "qwen3"
  ELSE "os-tts"

SelectLocalTTSEngine(pref, piper, qwen3) ==
  IF pref = "piper" /\ piper THEN "piper"
  ELSE IF pref = "qwen3" /\ qwen3 THEN "qwen3"
  ELSE IF piper THEN "piper"
  ELSE IF qwen3 THEN "qwen3"
  ELSE "os-tts"

\* selectLocalTTSEngine() suspends on the sidecar health fetch unless it
\* returns from a (synchronous) Piper check first; only then can a request
\* be served before the assignment at server.ts:650.
SelectionAwaitsProbe ==
  ~ ( (PAI_TTS_ENGINE = "piper" /\ piperAvailable)
      \/ (PAI_TTS_ENGINE # "qwen3" /\ piperAvailable) )

Serving == initDone \/ SelectionAwaitsProbe

----------------------------------------------------------------------------
\* Progressive pipeline (qwen3-tts.ts, playQwen3Progressive)

NoPipe ==
  [n |-> 0, currentIndex |-> 1, isPlaying |-> FALSE, audioQueue |-> <<>>,
   gen |-> 1, generationComplete |-> FALSE, playbackComplete |-> FALSE,
   played |-> <<>>]

InitPipe(n) ==
  [n |-> n, currentIndex |-> 1, isPlaying |-> FALSE,
   audioQueue |-> [k \in 1..n |-> "undefined"],
   gen |-> 1, generationComplete |-> FALSE, playbackComplete |-> FALSE,
   played |-> <<>>]

\* n is the number of sentences of the item's message, known from the moment
\* the item is dequeued; plays holds the playAudio calls in flight; calls, fallbacks, says, spawns and failed record
\* what the call has done so far.
NoCall ==
  [phase |-> "idle", n |-> 0, op |-> "none", plays |-> {}, pl |-> NoPipe,
   calls |-> 0, fallbacks |-> 0, says |-> 0, spawns |-> 0,
   failed |-> {}]

\* playAudio(buffer, fmt) is called for slot (0 outside the pipeline): it
\* starts writing its temporary file, named after Date.now() and fmt.
PlayAudio(p, slot, fmt) ==
  [p EXCEPT !.calls = @ + 1,
            !.plays = @ \cup {[id |-> p.calls + 1, slot |-> slot, fmt |-> fmt,
                               t |-> now, st |-> "write"]}]

\* A queued item is released once it was dequeued and its completion settled
\* (after processNotificationVoice returned, or at once when it is skipped).
Released == [NoCall EXCEPT !.phase = "released"]

\* checkComplete(): resolve() ends playQwen3Progressive, dispatchLocalTTS and
\* processNotificationVoice in the same turn of the event loop.
CheckComplete(p) ==
  IF p.pl.generationComplete /\ p.pl.playbackComplete
  THEN [p EXCEPT !.phase = "returned", !.op = "none"]
  ELSE p

\* Variant: a zero-length slot is not skipped.
SkipEmptyNever(aq, c, n) == c

\* The recursion of playNext through zero-length slots.
RECURSIVE SkipEmpty(_, _, _)
SkipEmpty(aq, c, n) ==
  IF c <= n /\ aq[c] = "empty" THEN SkipEmpty(aq, c + 1, n) ELSE c

\* Variant: the flag is not raised before the await on playAudioFn.
SetPlayingForgotten(pl) == pl

\* isPlaying = true at qwen3-tts.ts:176
SetPlaying(pl) == [pl EXCEPT !.isPlaying = TRUE]

PlayNext(p) ==
  LET pl == p.pl IN
  IF pl.isPlaying THEN p
  ELSE IF pl.currentIndex > pl.n THEN p
  ELSE IF pl.audioQueue[pl.currentIndex] = "undefined" THEN p
  ELSE LET c == SkipEmpty(pl.audioQueue, pl.currentIndex, pl.n) IN
       IF c > pl.n
       THEN CheckComplete([p EXCEPT !.pl.currentIndex = c,
                                    !.pl.playbackComplete = TRUE])
       ELSE IF pl.audioQueue[c] = "undefined"
       THEN [p EXCEPT !.pl.currentIndex = c]
       ELSE PlayAudio([p EXCEPT !.pl = [SetPlaying(pl) EXCEPT
                                          !.currentIndex = c,
                                          !.played = Append(@, c)]],
                      c, "wav")

\* playNext after its await on playAudioFn (qwen3-tts.ts:187-195)
AfterPlay(p) ==
  LET p1 == [p EXCEPT !.pl.isPlaying = FALSE, !.pl.currentIndex = @ + 1] IN
  IF p1.pl.currentIndex <= p1.pl.n
  THEN PlayNext(p1)
  ELSE CheckComplete([p1 EXCEPT !.pl.playbackComplete = TRUE])

\* The for loop of generateAll after one generateSpeechQwen3 call settled.
\* out is "audio", "empty" (a successful response with no bytes) or "fail".
GenerateAllStep(p, out) ==
  LET g  == p.pl.gen
      p1 == IF out = "fail"
            THEN [p EXCEPT !.pl.audioQueue[g] = "empty",
                           !.failed = @ \cup {<<p.phase, "pipeline">>}]
            ELSE LET q == [p EXCEPT !.pl.audioQueue[g] = out] IN
                 IF ~q.pl.isPlaying THEN PlayNext(q) ELSE q
      p2 == [p1 EXCEPT !.pl.gen = g + 1] IN
  IF g + 1 <= p.pl.n
  THEN p2
  ELSE CheckComplete([p2 EXCEPT !.pl.generationComplete = TRUE])

----------------------------------------------------------------------------
\* Dispatch and notification processing (server.ts)

PlayQwen3Progressive(p) ==
  IF p.n <= 1
  THEN [p EXCEPT !.op = "qwenGen"]
  ELSE [p EXCEPT !.op = "pipeline", !.pl = InitPipe(p.n)]

\* The switch of dispatchLocalTTS on engine, each case up to its first
\* suspension.
DispatchCase(engine, p) ==
  CASE engine = "piper"  -> [p EXCEPT !.op = "piperGen"]
    [] engine = "qwen3"  -> PlayQwen3Progressive(p)
    [] engine = "os-tts" ->
         [p EXCEPT !.op = IF LINUX_TTS THEN "say" ELSE "sayNone",
                   !.says = @ + 1]

\* Variant: the dispatch runs the engine selection again instead of reading
\* the cached value.
DispatchLocalTTSReselect(p) ==
  DispatchCase(SelectLocalTTSEngine(PAI_TTS_ENGINE, piperAvailable,
                                    qwen3Available), p)

\* dispatchLocalTTS reads the cached selectedLocalEngine.
DispatchLocalTTS(p) == DispatchCase(selectedLocalEngine, p)

\* Variant: the cloud engine is used only when no neural engine was selected.
ProcessNotificationVoiceLocalFirst(p) ==
  LET p1 == [p EXCEPT !.phase = "primary"] IN
  IF ELEVENLABS_API_KEY /\ selectedLocalEngine = "os-tts"
  THEN [p1 EXCEPT !.op = "cloudGen"]
  ELSE DispatchLocalTTS(p1)

\* processNotificationVoice up to its first suspension
ProcessNotificationVoice(p) ==
  LET p1 == [p EXCEPT !.phase = "primary"] IN
  IF ELEVENLABS_API_KEY
  THEN [p1 EXCEPT !.op = "cloudGen"]
  ELSE DispatchLocalTTS(p1)

\* Variant: the outer catch only logs.
CatchLogsOnly(p, kind) ==
  [p EXCEPT !.phase = "returned", !.op = "none",
            !.failed = @ \cup {<<p.phase, kind>>}]

\* An exception reaches the try of processNotificationVoice: the outer catch
\* dispatches the fallback, the inner catch logs and returns.
Catch(p, kind) ==
  IF p.phase = "primary"
  THEN DispatchLocalTTS([p EXCEPT !.phase = "fallback", !.fallbacks = @ + 1,
                                  !.failed = @ \cup {<<"primary", kind>>}])
  ELSE [p EXCEPT !.phase = "returned", !.op = "none",
                 !.failed = @ \cup {<<"fallback", kind>>}]

\* The awaited call resolved: processNotificationVoice returns.
Return(p) == [p EXCEPT !.phase = "returned", !.op = "none"]

HasPlayer(fmt) ==
  IF fmt = "wav" THEN LINUX_AUDIO_PLAYER_WAV ELSE LINUX_AUDIO_PLAYER_MP3

----------------------------------------------------------------------------
\* Audio queue (server.ts, class AudioQueue)

\* Variant: the new item is put at the front (unshift instead of push).
PushFront(q, x) == <<x>> \o q

\* this.queue.push(...)
Push(q, x) == Append(q, x)

\* Variant: processQueue without its re-entrancy guard.
LoopRunningNoGuard == FALSE

\* if (this.isProcessing) return;
LoopRunning == isProcessing

\* The outcomes one checkAudioStatus() call can have: the stream list holds
\* no foreign stream ("silent") or at least one ("foreign"), the query throws
\* or times out ("failed"), or the platform has no query ("noquery").
CheckAudioStatus ==
  CASE pactl = "works"      -> {"silent", "foreign"}
    [] pactl = "unreliable" -> {"silent", "foreign", "failed"}
    [] pactl = "none"       -> {"noquery"}

\* Variant: a query that failed counts as foreign audio (fail-closed).
OtherAudioPlayingOrFailed(st) == st \in {"foreign", "failed"}

\* audioStatus.otherAudioPlaying: the catch of checkAudioStatus and its
\* platform guard both return false.
OtherAudioPlaying(st) == st = "foreign"

\* Variant: the skipped item is put back at the end of the queue.
SkipRequeues(q, k) == SubSeq(q, k + 1, Len(q)) \o SubSeq(q, 1, k)

\* The queue after its first k items were shifted and skipped.
Skip(q, k) == SubSeq(q, k + 1, Len(q))

\* Variant: a skipped item is rejected.
SkipSinkRejects == "rejected"

\* notification.resolve() of the branch that skips an item.
SkipSink == "resolved"

\* Variant: the loop exits without clearing the flag.
ProcessingAfterLoopKept == TRUE

\* this.isProcessing = false, when the while loop has found the queue empty.
ProcessingAfterLoop == FALSE

\* The sentence counts a dequeued message can have.  Only
\* playQwen3Progressive splits the message, so a host whose selected engine
\* is another one never counts its sentences.
Sentences ==
  IF selectedLocalEngine = "qwen3" THEN 1..MaxSent ELSE {1}

\* The while loop of processQueue from its head with queue contents q, up to
\* the await on processNotificationVoice or the loop exit.  checkAudioStatus
\* reports foreign audio for the first k items (each is resolved and
\* skipped); st is the result of the last call made, which lets item k+1
\* through, whose message has n sentences.  cmp and pv are completion and
\* pnv as the caller leaves them.
ProcessQueue(q, cmp, pv) ==
  \E k \in 0..Len(q) :
    LET dropped == {q[j] : j \in 1..k}
        cmp1    == [x \in Reqs |-> IF x \in dropped THEN SkipSink ELSE cmp[x]]
        pv1     == [x \in Reqs |-> IF x \in dropped THEN Released ELSE pv[x]]
        rest    == Skip(q, k)
    IN
    /\ k > 0 => \E d \in CheckAudioStatus : OtherAudioPlaying(d)
    /\ completion' = cmp1
    /\ IF rest = <<>>
       THEN /\ queue' = <<>>
            /\ isProcessing' = ProcessingAfterLoop
            /\ pnv' = pv1
            /\ started' = started \o q
            /\ IF k = 0
               THEN UNCHANGED audioStatus
               ELSE \E st \in CheckAudioStatus :
                      OtherAudioPlaying(st) /\ audioStatus' = st
       ELSE LET i == Head(rest) IN
            /\ queue' = Tail(rest)
            /\ isProcessing' = TRUE
            /\ \E st \in CheckAudioStatus :
                 ~OtherAudioPlaying(st) /\ audioStatus' = st
            /\ \E n \in Sentences :
                 pnv' = [pv1 EXCEPT ![i] =
                           ProcessNotificationVoice([pv1[i] EXCEPT !.n = n])]
            /\ started' = started \o SubSeq(q, 1, k) \o <<i>>

\* processQueue resumes after `await processNotificationVoice(...)`:
\* notification.resolve(), then the next iteration.
LoopResume(i) ==
  /\ pnv[i].phase = "returned"
  /\ completion[i] = "pending"
  /\ ProcessQueue(queue,
                  [completion EXCEPT ![i] = "resolved"],
                  [pnv EXCEPT ![i] = Released])
  /\ UNCHANGED <<config, pure, voiceEnabled, tempFiles, gate, selectedLocalEngine, initDone, handler,
                 response, enqueued>>

----------------------------------------------------------------------------
\* Rate limiting (server.ts, checkRateLimit)

NoRecord == [count |-> 0, resetTime |-> 0]

\* !record || now > record.resetTime
Expired(rec, t) == rec.count = 0 \/ t > rec.resetTime

\* Variant: the bucket takes one request more than RATE_LIMIT.
BucketFullOffByOne(rec) == rec.count > RATE_LIMIT

\* record.count >= RATE_LIMIT
BucketFull(rec) == rec.count >= RATE_LIMIT

\* The value checkRateLimit(key) returns at time now.
CheckRateLimit(key) ==
  Expired(requestCounts[key], now) \/ ~BucketFull(requestCounts[key])

\* Variant: a rejected request moves the deadline of the bucket.
RecordAfterExtends(rec, t) ==
  IF Expired(rec, t) THEN [count |-> 1, resetTime |-> t + RATE_WINDOW]
  ELSE IF BucketFull(rec) THEN [rec EXCEPT !.resetTime = t + RATE_WINDOW]
  ELSE [rec EXCEPT !.count = @ + 1]

\* The entry of key after checkRateLimit(key) at time t.
RecordAfter(rec, t) ==
  IF Expired(rec, t) THEN [count |-> 1, resetTime |-> t + RATE_WINDOW]
  ELSE IF BucketFull(rec) THEN rec
  ELSE [rec EXCEPT !.count = @ + 1]

\* The call checkRateLimit(key) of fetch, with the histories: the request is
\* the seen[key].n-th since the window of key opened (counted up to
\* RATE_LIMIT + 1), and is recorded in admitted when let through.
Gate(key) ==
  /\ requestCounts' =
       [requestCounts EXCEPT ![key] = RecordAfter(@, now)]
  /\ admitted' =
       IF CheckRateLimit(key)
       THEN [admitted EXCEPT ![key][now] = @ + 1]
       ELSE admitted
  /\ seen' =
       [seen EXCEPT ![key] =
          IF @.n = 0 \/ now > @.open + RATE_WINDOW
          THEN [open |-> now, n |-> 1]
          ELSE [@ EXCEPT !.n = IF @ > RATE_LIMIT THEN @ ELSE @ + 1]]
  /\ UNCHANGED now

NoReply == [kind |-> "none", key |-> "none", status |-> 0, message |-> "",
            engine |-> "none", cloud |-> FALSE]

Reply(kind, key, status, message) ==
  [NoReply EXCEPT !.kind = kind, !.key = key, !.status = status,
                  !.message = message]

queueVars == <<handler, response, queue, isProcessing, completion, pnv,
               audioStatus, enqueued, started>>

\* A request whose checkRateLimit returns false: 429 before any routing.
\* kind is what the request would have been.
HttpLimited(key, kind) ==
  /\ Serving
  /\ ~CheckRateLimit(key)
  /\ Gate(key)
  /\ reply' = Reply(kind, key, 429, "Rate limit exceeded")
  /\ UNCHANGED <<config, pure, voiceEnabled, tempFiles, selectedLocalEngine, initDone, queueVars>>

\* OPTIONS: answered 204 before the rate limiter is consulted.
HttpOptions(key) ==
  /\ Serving
  /\ reply' = Reply("options", key, 204, "")
  /\ UNCHANGED <<config, pure, voiceEnabled, tempFiles, selectedLocalEngine, initDone, queueVars, now,
                 requestCounts, admitted, seen>>

\* GET /health
HttpHealth(key) ==
  /\ Serving
  /\ CheckRateLimit(key)
  /\ Gate(key)
  /\ reply' = [Reply("health", key, 200, "healthy") EXCEPT
                 !.engine = selectedLocalEngine,
                 !.cloud = ELEVENLABS_API_KEY]
  /\ UNCHANGED <<config, pure, voiceEnabled, tempFiles, selectedLocalEngine, initDone, queueVars>>

\* Any other path or method: the usage text.
HttpOther(key) ==
  /\ Serving
  /\ CheckRateLimit(key)
  /\ Gate(key)
  /\ reply' = Reply("other", key, 200, "Voice Server - POST to /notify or /pai")
  /\ UNCHANGED <<config, pure, voiceEnabled, tempFiles, selectedLocalEngine, initDone, queueVars>>

\* Time passes: Date.now() is t from now on.  Admissions that no window
\* ending at t or later can hold leave the history.
Tick(t) ==
  /\ t > now
  /\ now' = t
  /\ admitted' = [k \in clients |-> [a \in Instants |->
                     IF a + RATE_WINDOW <= t THEN 0 ELSE admitted[k][a]]]
  /\ UNCHANGED <<config, pure, voiceEnabled, tempFiles, selectedLocalEngine, initDone, queueVars,
                 requestCounts, reply, seen>>

----------------------------------------------------------------------------
\* HTTP handlers (server.ts, fetch and sendNotification)

\* POST /notify or /pai with valid title and message and voice enabled, after
\* the body was read: sendNotification enqueues the item (enqueue runs
\* processQueue to its first suspension) and starts the desktop notification.
\* audioQueue.enqueue(...) for request r: push, then processQueue().
Enqueue(r) ==
  /\ enqueued' = Append(enqueued, r)
  /\ IF LoopRunning
     THEN /\ queue' = Push(queue, r)
          /\ completion' = [completion EXCEPT ![r] = "pending"]
          /\ UNCHANGED <<isProcessing, pnv, audioStatus, started>>
     ELSE ProcessQueue(Push(queue, r),
                       [completion EXCEPT ![r] = "pending"],
                       pnv)

\* Variant: sendNotification enqueues whatever voice_enabled says.
EnqueuesAlways(enabled) == TRUE

\* if (voiceEnabled) { audioQueue.enqueue(...) }
Enqueues(enabled) == enabled

HttpNotify(r, key) ==
  /\ Serving
  /\ CheckRateLimit(key)
  /\ Gate(key)
  /\ handler[r] = "none"
  /\ \A s \in Reqs : s < r => handler[s] # "none"
  /\ handler' = [handler EXCEPT ![r] = "notify"]
  /\ Enqueue(r)
  /\ UNCHANGED <<config, pure, voiceEnabled, tempFiles, selectedLocalEngine, initDone, response, reply>>

\* The errors a POST handler can catch before anything is enqueued: the
\* three validation errors, and a body that is not JSON.
PostErrors ==
  {"Invalid title", "Invalid message", "Invalid voice_id", "JSON Parse error"}

\* Variant: the catch answers 500 whatever the error.
ErrorStatusAlways500(err) == 500

\* error.message?.includes('Invalid') ? 400 : 500
ErrorStatus(err) ==
  IF err \in {"Invalid title", "Invalid message", "Invalid voice_id"}
  THEN 400 ELSE 500

\* POST /notify or /pai whose body does not parse, whose voice_id is not a
\* string, or whose title or message fails validateInput: the throw happens
\* before audioQueue.enqueue and the catch of the route answers.
HttpInvalid(r, key, err) ==
  /\ Serving
  /\ CheckRateLimit(key)
  /\ Gate(key)
  /\ handler[r] = "none"
  /\ \A s \in Reqs : s < r => handler[s] # "none"
  /\ handler' = [handler EXCEPT ![r] = "done"]
  /\ response' = [response EXCEPT ![r] = ErrorStatus(err)]
  /\ reply' = Reply("notify", key, ErrorStatus(err), err)
  /\ UNCHANGED <<config, pure, voiceEnabled, tempFiles, selectedLocalEngine, initDone, queue, isProcessing,
                 completion, pnv, audioStatus, enqueued, started>>

\* POST /notify with valid title and message and voice_enabled false:
\* nothing is enqueued and the desktop notification is started.
HttpSilent(r, key) ==
  /\ Serving
  /\ CheckRateLimit(key)
  /\ Gate(key)
  /\ handler[r] = "none"
  /\ \A s \in Reqs : s < r => handler[s] # "none"
  /\ handler' = [handler EXCEPT ![r] = "notify"]
  /\ voiceEnabled' = [voiceEnabled EXCEPT ![r] = FALSE]
  /\ IF Enqueues(FALSE)
     THEN Enqueue(r)
     ELSE UNCHANGED <<queue, isProcessing, completion, pnv, audioStatus,
                      enqueued, started>>
  /\ UNCHANGED <<config, pure, tempFiles, selectedLocalEngine, initDone,
                 response, reply>>

\* Variant: sendNotification awaits the promise returned by enqueue.
ResponseReadyAwaitsVoice(r) ==
  handler[r] = "notify" /\ completion[r] \in {"resolved", "rejected"}

\* sendNotification does not await audioQueue.enqueue(...): it returns once
\* the desktop notification has (server.ts:480-506).
ResponseReady(r) == handler[r] = "notify"

\* sendNotification returns after the desktop notification (its failure is
\* swallowed); the handler answers 200.
NotifyDone(r) ==
  /\ ResponseReady(r)
  /\ handler' = [handler EXCEPT ![r] = "done"]
  /\ response' = [response EXCEPT ![r] = 200]
  /\ UNCHANGED <<config, pure, voiceEnabled, tempFiles, gate, selectedLocalEngine, initDone, queue,
                 isProcessing, completion, pnv, audioStatus, enqueued, started>>

----------------------------------------------------------------------------
\* Completions of the calls processNotificationVoice awaits

Only(i, p) ==
  /\ pnv' = [pnv EXCEPT ![i] = p]
  /\ UNCHANGED <<config, pure, voiceEnabled, tempFiles, gate, selectedLocalEngine, initDone, handler,
                 response, queue, isProcessing, completion, audioStatus,
                 enqueued, started>>

\* `/tmp/voice-${Date.now()}.${extension}`: the path of the temp file of
\* the playAudio call c.
TempFile(c) == <<c.t, c.fmt>>

\* spawn('/bin/rm', ['-f', tempFile]) followed at once by resolve/reject:
\* the child is not awaited, so when the awaiting code resumes the file is
\* either unlinked already or still on disk.
RmSpawned(f) ==
  IF rmRace THEN {tempFiles, tempFiles \cup {f}} ELSE {tempFiles}

\* A playAudio call of item i settles: its rm child was spawned, and the
\* call of processNotificationVoice moves on to p.
OnlyRm(i, p, f) ==
  /\ pnv' = [pnv EXCEPT ![i] = p]
  /\ tempFiles' \in RmSpawned(f)
  /\ UNCHANGED <<config, pure, voiceEnabled, gate, selectedLocalEngine, initDone, handler,
                 response, queue, isProcessing, completion, audioStatus,
                 enqueued, started>>

\* An rm child spawned by playAudio unlinks its file.
RmExit(f) ==
  /\ f \in tempFiles
  /\ tempFiles' = tempFiles \ {f}
  /\ UNCHANGED <<config, pure, voiceEnabled, gate, selectedLocalEngine, initDone, handler,
                 response, queue, isProcessing, completion, pnv, audioStatus,
                 enqueued, started>>

\* generateSpeech / generateSpeechPiper / generateSpeechQwen3 (single
\* sentence) settles; on success playAudio starts writing its temp file.
SynthReturn(i, ok) ==
  /\ pnv[i].op \in {"cloudGen", "piperGen", "qwenGen"}
  /\ LET p == pnv[i]
         fmt == IF p.op = "cloudGen" THEN "mp3" ELSE "wav" IN
     Only(i, IF ok
             THEN PlayAudio([p EXCEPT !.op = "playAudio"], 0, fmt)
             ELSE Catch(p, "synth"))

\* playAudio after `await Bun.write`: spawn the player, or reject when no
\* player exists for the format.
PlayerSpawn(i, c) ==
  /\ c \in pnv[i].plays
  /\ c.st = "write"
  /\ LET p == pnv[i] IN
     IF HasPlayer(c.fmt)
     THEN Only(i, [p EXCEPT !.plays = (@ \ {c}) \cup {[c EXCEPT !.st = "player"]},
                            !.spawns = @ + 1])
     ELSE LET p1 == [p EXCEPT !.plays = @ \ {c}] IN
          IF c.slot = 0
          THEN OnlyRm(i, Catch(p1, "play"), TempFile(c))
          ELSE OnlyRm(i, AfterPlay([p1 EXCEPT !.failed = @ \cup {<<p.phase, "pipeline">>}]),
                      TempFile(c))

\* The player child exits (code 0, non-zero) or emits 'error'.
PlayerExit(i, c, code) ==
  /\ c \in pnv[i].plays
  /\ c.st = "player"
  /\ LET p  == pnv[i]
         p1 == [p EXCEPT !.plays = @ \ {c}] IN
     IF c.slot = 0
     THEN OnlyRm(i, IF code = "exit0" THEN Return(p1)
                    ELSE Catch(p1, "play"), TempFile(c))
     ELSE OnlyRm(i, AfterPlay(IF code = "exit0" THEN p1
                              ELSE [p1 EXCEPT !.failed = @ \cup {<<p.phase, "pipeline">>}]),
                 TempFile(c))

\* speakWithSay: the speech tool exits.
SayExit(i, ok) ==
  /\ pnv[i].op = "say"
  /\ Only(i, IF ok THEN Return(pnv[i]) ELSE Catch(pnv[i], "say"))

\* speakWithSay without a speech tool: warns and resolves.
SayUnavailable(i) ==
  /\ pnv[i].op = "sayNone"
  /\ Only(i, Return(pnv[i]))

\* One generateSpeechQwen3 call of generateAll settles.
GenReturn(i, out) ==
  /\ pnv[i].op = "pipeline"
  /\ pnv[i].pl.gen <= pnv[i].pl.n
  /\ Only(i, GenerateAllStep(pnv[i], out))

\* selectedLocalEngine = await selectLocalTTSEngine()   (server.ts:650)
SelectEngine ==
  /\ ~initDone
  /\ initDone' = TRUE
  /\ selectedLocalEngine' =
       SelectLocalTTSEngine(PAI_TTS_ENGINE, piperAvailable, qwen3Available)
  /\ UNCHANGED <<config, pure, voiceEnabled, tempFiles, gate, handler, response, queue, isProcessing,
                 completion, pnv, audioStatus, enqueued, started>>

----------------------------------------------------------------------------

\* No function call is being followed.
NoEval == [fn |-> "none", arg |-> "none", done |-> FALSE, result |-> "none"]

\* The call of fn on arg, not yet made.
Eval(fn, arg) == [fn |-> fn, arg |-> arg, done |-> FALSE, result |-> "none"]

\* The function followed returns.
Returns(fn, value) ==
  /\ pure.fn = fn
  /\ ~pure.done
  /\ pure' = [pure EXCEPT !.done = TRUE, !.result = value]
  /\ UNCHANGED <<config, tempFiles, voiceEnabled, gate, selectedLocalEngine,
                 initDone, queueVars>>

----------------------------------------------------------------------------
\* Prosody of the cloud path (server.ts, elevenlabs-tts.ts)
\*
\* An object is a function from field names to values; "absent" says the
\* object has no such key, "undefined" that the key is there with the value
\* undefined.  The other values name where a number came from.

ProsodyFields ==
  {"stability", "similarity_boost", "style", "speed", "use_speaker_boost"}

AllFields == ProsodyFields \cup {"volume"}

\* {}
Empty == [f \in AllFields |-> "absent"]

DEFAULT_PROSODY ==
  [f \in AllFields |-> IF f = "volume" THEN "absent" ELSE "default"]

\* o.f
Read(o, f) == IF o[f] = "absent" THEN "undefined" ELSE o[f]

\* x ?? y
Nullish(x, y) == IF x = "undefined" THEN y ELSE x

\* { ...a, ...b }: every key of b, also one holding undefined, replaces a's.
Spread(a, b) == [f \in AllFields |-> IF b[f] # "absent" THEN b[f] ELSE a[f]]

\* The voiceSettings argument built by the /notify route from
\* data.voice_settings and data.volume.
VoiceSettings(data) ==
  IF data.has_settings
  THEN [given |-> TRUE,
        fields |-> [data.voice_settings EXCEPT
                      !["volume"] = Nullish(data.volume,
                                            Read(data.voice_settings, "volume"))]]
  ELSE IF data.volume # "undefined"
       THEN [given |-> TRUE, fields |-> [Empty EXCEPT !["volume"] = data.volume]]
       ELSE [given |-> FALSE, fields |-> Empty]

\* The prosody taken from the voice config, or from the DA identity for the
\* default voice when the voice has no config.
ConfigProsody(voiceConfig, isDefault, da) ==
  CASE voiceConfig.kind = "nested" -> voiceConfig.fields
    [] voiceConfig.kind = "flat" ->
         [f \in AllFields |->
            CASE f \in {"stability", "similarity_boost"} ->
                   Read(voiceConfig.fields, f)
              [] f = "volume" -> "absent"
              [] OTHER -> Nullish(Read(voiceConfig.fields, f), DEFAULT_PROSODY[f])]
    [] OTHER -> IF isDefault /\ da.given THEN da.fields ELSE Empty

\* getVolumeSetting(requestVolume, daVoiceProsody)
GetVolumeSetting(requestVolume, da) ==
  IF requestVolume # "undefined" THEN requestVolume
  ELSE IF da.given /\ Read(da.fields, "volume") # "undefined"
       THEN da.fields["volume"]
       ELSE "1.0"

\* The cloud branch of processNotificationVoice with generateSpeech and
\* playAudio: the voice_settings sent upstream and the playback volume.
ResolveProsody(in) ==
  LET requestProsody == VoiceSettings(in.data)
      prosody0 == ConfigProsody(in.voiceConfig, in.isDefault, in.da)
      prosody  == IF requestProsody.given
                  THEN Spread(prosody0, requestProsody.fields)
                  ELSE prosody0
      volume   == Nullish(Read(prosody, "volume"),
                          IF in.da.given THEN Read(in.da.fields, "volume")
                          ELSE "undefined")
      settings == Spread(DEFAULT_PROSODY, prosody)
  IN [voice_settings |-> [f \in ProsodyFields |-> Read(settings, f)],
      volume |-> GetVolumeSetting(volume, in.da)]

\* The request bodies, voice configs and DA identities considered.
ProsodyInputs ==
  LET Objects(F, v) == {[f \in AllFields |-> IF f \in S THEN v ELSE "absent"] :
                         S \in SUBSET F}
      Data == {[has_settings |-> TRUE, voice_settings |-> o, volume |-> v] :
                 o \in Objects(AllFields, "request"),
                 v \in {"undefined", "request.volume"}}
              \cup {[has_settings |-> FALSE, voice_settings |-> Empty, volume |-> v] :
                      v \in {"undefined", "request.volume"}}
      Configs == {[kind |-> "none", fields |-> Empty]}
                 \cup {[kind |-> "flat", fields |-> o] :
                         o \in Objects(ProsodyFields, "config")}
                 \cup {[kind |-> "nested", fields |-> o] :
                         o \in Objects(AllFields, "config")}
      Das == {[given |-> FALSE, fields |-> Empty],
              [given |-> TRUE,
               fields |-> [f \in AllFields |-> IF f = "volume" THEN "absent" ELSE "da"]],
              [given |-> TRUE, fields |-> [f \in AllFields |-> "da"]]}
  IN {[data |-> d, voiceConfig |-> c, isDefault |-> b, da |-> a] :
        d \in Data, c \in Configs, b \in BOOLEAN, a \in Das}

\* One request on the cloud path: generateSpeech is called with the
\* resolved prosody and playAudio with the resolved volume.
CloudProsody == Returns("prosody", ResolveProsody(pure.arg))

----------------------------------------------------------------------------
\* Input sanitisation and validation (server.ts)
\*
\* A string is a sequence of one-character strings.

Whitespace == {" "}

\* The backslash and the backtick, which a string here cannot hold.
Backslash == "backslash"

Backtick == "backtick"

\* Case folding of the 'i' flag, for the letters the patterns name.
Lower(c) ==
  CASE c = "S" -> "s" [] c = "C" -> "c" [] c = "R" -> "r"
    [] c = "I" -> "i" [] c = "P" -> "p" [] c = "T" -> "t"
    [] OTHER -> c

\* The literal lit occurs in s at position i.
At(s, i, lit) ==
  /\ i + Len(lit) - 1 <= Len(s)
  /\ \A k \in 1..Len(lit) : Lower(s[i + k - 1]) = lit[k]

\* The number of characters from position i on that are in (in = TRUE) or
\* not in (in = FALSE) the set cs.
Run(s, i, cs, in) ==
  LET stops == {j \in i..(Len(s) + 1) :
                  j = Len(s) + 1 \/ ((s[j] \in cs) # in)}
  IN (CHOOSE j \in stops : \A k \in stops : j <= k) - i

\* open ([^x]+) close, where x is the first character of open: the length
\* of the match at i and the captured group.
Delimited(s, i, open) ==
  LET n == Len(open)
      r == IF At(s, i, open) THEN Run(s, i + n, {open[1]}, FALSE) ELSE 0
  IN IF r > 0 /\ At(s, i + n + r, open)
     THEN [len |-> 2 * n + r, keep |-> SubSeq(s, i + n, i + n + r - 1)]
     ELSE [len |-> 0, keep |-> <<>>]

\* The match of one pattern of sanitizeForSpeech at position i of s: its
\* length (0: no match) and what replaces it.
Match(rule, s, i) ==
  CASE rule = "script" ->
         IF At(s, i, <<"<", "s", "c", "r", "i", "p", "t">>)
         THEN [len |-> 7, keep |-> <<>>] ELSE [len |-> 0, keep |-> <<>>]
    [] rule = "dotdot" ->
         IF At(s, i, <<".", ".", "/">>)
         THEN [len |-> 3, keep |-> <<>>] ELSE [len |-> 0, keep |-> <<>>]
    [] rule = "shell" ->
         IF s[i] \in {";", "&", "|", ">", "<", Backtick, "$", Backslash}
         THEN [len |-> 1, keep |-> <<>>] ELSE [len |-> 0, keep |-> <<>>]
    [] rule = "bold"   -> Delimited(s, i, <<"*", "*">>)
    [] rule = "italic" -> Delimited(s, i, <<"*">>)
    [] rule = "code"   -> Delimited(s, i, <<Backtick>>)
    [] rule = "heading" ->
         LET h == IF s[i] = "#" THEN Run(s, i, {"#"}, TRUE) ELSE 0
             w == IF h >= 1 /\ h <= 6 THEN Run(s, i + h, Whitespace, TRUE) ELSE 0
         IN IF h >= 1 /\ h <= 6 /\ w >= 1
            THEN [len |-> h + w, keep |-> <<>>]
            ELSE [len |-> 0, keep |-> <<>>]

RECURSIVE Replace(_, _, _)
\* s.replace(/pattern/g, replacement), from position i on.
Replace(rule, s, i) ==
  LET hits == {j \in i..Len(s) : Match(rule, s, j).len > 0} IN
  IF hits = {} THEN SubSeq(s, i, Len(s))
  ELSE LET j == CHOOSE h \in hits : \A k \in hits : h <= k
           m == Match(rule, s, j)
       IN SubSeq(s, i, j - 1) \o m.keep \o Replace(rule, s, j + m.len)

\* s.trim()
Trim(s) ==
  LET keep == {j \in 1..Len(s) : s[j] \notin Whitespace} IN
  IF keep = {} THEN <<>>
  ELSE SubSeq(s, CHOOSE j \in keep : \A k \in keep : j <= k,
                 CHOOSE j \in keep : \A k \in keep : j >= k)

MaxInputLength == 500

\* s.substring(0, 500)
Truncate(s) == SubSeq(s, 1, IF Len(s) < MaxInputLength THEN Len(s) ELSE MaxInputLength)

\* The replacements of sanitizeForSpeech, in the order the code chains them.
Rules == <<"script", "dotdot", "shell", "bold", "italic", "code", "heading">>

RECURSIVE Chain(_, _)
\* input after the first k replacements.
Chain(input, k) ==
  IF k = 0 THEN input ELSE Replace(Rules[k], Chain(input, k - 1), 1)

SanitizeForSpeech(input) == Truncate(Trim(Chain(input, Len(Rules))))

\* A JSON value of a request body: its type and, for a string, its text.
\* `truthy` is what a condition makes of it.
Str(text) == [type |-> "string", truthy |-> text # <<>>, text |-> text]

NonString(type, truthy) == [type |-> type, truthy |-> truthy, text |-> <<>>]

ValidateInput(input) ==
  IF ~input.truthy \/ input.type # "string"
  THEN [valid |-> FALSE, error |-> "Invalid input type", sanitized |-> <<>>]
  ELSE IF Len(input.text) > MaxInputLength
  THEN [valid |-> FALSE, error |-> "Message too long (max 500 characters)",
        sanitized |-> <<>>]
  ELSE LET sanitized == SanitizeForSpeech(input.text) IN
       IF Len(sanitized) = 0
       THEN [valid |-> FALSE,
             error |-> "Message contains no valid content after sanitization",
             sanitized |-> <<>>]
       ELSE [valid |-> TRUE, error |-> "", sanitized |-> sanitized]

----------------------------------------------------------------------------
\* Sentence splitting (qwen3-tts.ts)

Terminators == {".", "!", "?"}

\* The length of the match of
\*   /[^.!?]+[.!?]+(?:\s|$)|[^.!?]+$/
\* at position i of s (0: no match there).
SentenceAt(s, i) ==
  LET n == Run(s, i, Terminators, FALSE)
      t == Run(s, i + n, Terminators, TRUE)
      e == i + n + t
  IN IF n >= 1 /\ t >= 1 /\ e = Len(s) + 1 THEN n + t
     ELSE IF n >= 1 /\ t >= 1 /\ s[e] \in Whitespace THEN n + t + 1
     ELSE IF n >= 1 /\ i + n = Len(s) + 1 THEN n
     ELSE 0

RECURSIVE MatchAll(_, _)
\* text.match(/.../g): the matches from position i on; a position where
\* nothing matches is passed over.
MatchAll(s, i) ==
  IF i > Len(s) THEN <<>>
  ELSE LET l == SentenceAt(s, i) IN
       IF l > 0 THEN <<SubSeq(s, i, i + l - 1)>> \o MatchAll(s, i + l)
       ELSE MatchAll(s, i + 1)

SplitIntoSentences(text) ==
  LET sentences == MatchAll(text, 1)
      NonEmpty(x) == Len(x) > 0
  IN IF sentences = <<>> THEN <<text>>
     ELSE SelectSeq([k \in 1..Len(sentences) |-> Trim(sentences[k])], NonEmpty)

MaxText == 5

\* The messages considered: every text of at most MaxText characters over
\* two letters, the space and two terminators.
Messages ==
  UNION {[1..n -> {"a", "b", " ", ".", "?"}] : n \in 0..MaxText}

CallSplit == Returns("splitIntoSentences", SplitIntoSentences(pure.arg))

\* data.title || "PAI Notification", data.message || "Task completed"
OrDefault(value, text) == IF value.truthy THEN value ELSE Str(text)

\* The POST /notify route from the parsed body to its status: the defaults,
\* the two validations of sendNotification, the catch of the route.
NotifyStatus(data) ==
  LET title   == OrDefault(data.title,
                   <<"P", "A", "I", " ", "N", "o", "t", "i", "f", "i", "c",
                     "a", "t", "i", "o", "n">>)
      message == OrDefault(data.message,
                   <<"T", "a", "s", "k", " ", "c", "o", "m", "p", "l", "e",
                     "t", "e", "d">>)
  IN IF ~ValidateInput(title).valid THEN ErrorStatus("Invalid title")
     ELSE IF ~ValidateInput(message).valid THEN ErrorStatus("Invalid message")
     ELSE 200

\* Pieces the texts considered are made of.
Chunks ==
  { <<"a">>, <<" ">>, <<"*">>, <<"*", "*">>, <<Backtick>>, <<"#">>, <<";">>,
    <<".">>, <<"/">>, <<".", ".">>, <<".", ".", "/">>,
    <<"<", "s", "c", "r", "i", "p", "t">>, <<"<", "S", "c", "r">>,
    <<"i", "p", "t">> }

MaxChunks == 3

RECURSIVE Concats(_)
\* The texts made of at most n pieces.
Concats(n) ==
  IF n = 0 THEN {<<>>}
  ELSE LET shorter == Concats(n - 1) IN
       shorter \cup {t \o c : t \in shorter, c \in Chunks}

\* Texts around the length limit.
LongTexts ==
  LET Pad(n) == [k \in 1..n |-> "a"] IN
  {h \o Pad(n) \o t :
     h \in {<<>>, <<";">>}, n \in {MaxInputLength - 1, MaxInputLength},
     t \in {<<>>, <<"a">>, <<" ">>, <<" ", "a">>}}

Texts == Concats(MaxChunks) \cup LongTexts

\* The values a body field can hold.
Values ==
  {Str(t) : t \in {<<>>, <<"a">>, <<";">>}}
  \cup {NonString("number", b) : b \in BOOLEAN}
  \cup {NonString("boolean", b) : b \in BOOLEAN}
  \cup {NonString("null", FALSE), NonString("object", TRUE),
        NonString("array", TRUE), NonString("undefined", FALSE)}

CallSanitize == Returns("sanitizeForSpeech", SanitizeForSpeech(pure.arg))

CallValidate == Returns("validateInput", ValidateInput(pure.arg))

NotifyBody == Returns("notify", NotifyStatus(pure.arg))

----------------------------------------------------------------------------
\* Audio players and audio status (linux-audio.ts)

\* The player programs `which` can find.
Programs == {"paplay", "mpv", "mpg123", "aplay"}

\* detectLinuxAudioPlayer(format): the first candidate installed, "null"
\* when none is.
DetectLinuxAudioPlayer(format, installed) ==
  LET candidates == IF format = "wav" THEN <<"paplay", "mpv", "aplay">>
                    ELSE <<"mpv", "mpg123", "paplay">>
      found == {k \in 1..Len(candidates) : candidates[k] \in installed}
  IN IF found = {} THEN "null"
     ELSE candidates[CHOOSE k \in found : \A j \in found : k <= j]

\* What one entry of `pactl list sink-inputs` says: the application.name
\* property ("absent": the entry has none) and the media.name property.
StreamApps == {"absent", "paplay", "mpv", "firefox"}

StreamMedia == {"absent", "/tmp/voice-1.wav", "/tmp/voice-1.mp3", "song.wav"}

\* entry.includes('application.name = "paplay"')
IsPaplay(entry) == entry.app = "paplay"

\* /media\.name = "[^"]*\/tmp\/voice-[^"]*\.wav"/.test(entry)
IsVoiceFile(entry) == entry.media = "/tmp/voice-1.wav"

\* entry.includes('application.name')
HasApplicationName(entry) == entry.app # "absent"

\* checkAudioStatus() when the stream query is in state query ("works",
\* "failed": it throws or times out, "none": not Linux) and lists entries.
AudioStatusOf(query, entries) ==
  IF query # "works"
  THEN [paiAudioPlaying |-> FALSE, otherAudioPlaying |-> FALSE]
  ELSE [paiAudioPlaying |->
          \E k \in 1..Len(entries) :
            IsPaplay(entries[k]) /\ IsVoiceFile(entries[k]),
        otherAudioPlaying |->
          \E k \in 1..Len(entries) :
            /\ ~(IsPaplay(entries[k]) /\ IsVoiceFile(entries[k]))
            /\ HasApplicationName(entries[k])]

MaxStreams == 2

\* The hosts and stream lists considered: any set of installed players, the
\* query in any state, at most MaxStreams active streams.
StreamInputs ==
  [installed : SUBSET Programs,
   query : {"works", "failed", "none"},
   entries : UNION {[1..n -> [app : StreamApps, media : StreamMedia]] :
                      n \in 0..MaxStreams}]

CallCheckAudioStatus ==
  Returns("checkAudioStatus",
          AudioStatusOf(pure.arg.query, pure.arg.entries))

----------------------------------------------------------------------------
\* Neural-CPU synthesis (piper-tts.ts)

\* The output file of one generateSpeechPiper call,
\* /tmp/voice-piper-${Date.now()}.wav.
PiperOutputFile == "voice-piper"

\* One run of generateSpeechPiper: whether the binary was found, how the
\* child ends ("error": it could not be spawned), whether it created the
\* file named by -f before ending, and whether that file can be read.
PiperRuns ==
  {run \in [binary : BOOLEAN, end : {"error", "exit0", "exitN"},
            wrote : BOOLEAN, readable : BOOLEAN] :
     /\ ~run.binary => (run.end = "error" /\ ~run.wrote)
     /\ run.end = "error" => ~run.wrote
     /\ run.readable => (run.wrote /\ run.end = "exit0")}

\* What the call settles with.
PiperOutcome(run) ==
  IF ~run.binary THEN "Piper TTS binary not found"
  ELSE IF run.end = "error" THEN "Piper spawn error"
  ELSE IF run.end = "exitN" THEN "Piper exited with code"
  ELSE IF ~run.readable THEN "Failed to read Piper output"
  ELSE "resolved"

\* The temp files on disk when the call has settled: rm is spawned on the
\* success path only, and is not awaited.
PiperFilesLeft(run) ==
  IF PiperOutcome(run) = "resolved"
  THEN RmSpawned(PiperOutputFile)
  ELSE IF run.wrote THEN {tempFiles \cup {PiperOutputFile}}
  ELSE {tempFiles}

\* generateSpeechPiper(text) from its call to the settling of its promise.
GenerateSpeechPiper ==
  /\ pure.fn = "generateSpeechPiper"
  /\ ~pure.done
  /\ pure' = [pure EXCEPT !.done = TRUE,
                          !.result = PiperOutcome(pure.arg.run)]
  /\ tempFiles' \in PiperFilesLeft(pure.arg.run)
  /\ UNCHANGED <<config, voiceEnabled, gate, selectedLocalEngine, initDone,
                 queueVars>>

----------------------------------------------------------------------------
\* The text that is spoken (server.ts, sanitizeForTTS, applyPronunciations,
\* stripMarkers)

\* open, one or more (atLeast = 1) or any number (atLeast = 0) of characters
\* other than close, close: the end of the match at i (0: no match) and the
\* characters between.
Bracketed(s, i, open, close, atLeast) ==
  LET r == IF i <= Len(s) /\ s[i] = open
           THEN Run(s, i + 1, {close}, FALSE) ELSE 0
      e == i + 1 + r
  IN IF i <= Len(s) /\ s[i] = open /\ r >= atLeast /\ e <= Len(s)
     THEN [end |-> e, keep |-> SubSeq(s, i + 1, e - 1)]
     ELSE [end |-> 0, keep |-> <<>>]

\* The match of one pattern of sanitizeForTTS or stripMarkers at position i
\* of s: its length (0: no match) and what replaces it.
\*   scheme  /https?:\/\//gi            -> ''
\*   link    /\[([^\]]+)\]\([^)]+\)/g   -> '$1'
\*   spaces  /\s+/g                     -> ' '
\*   marker  /\[[^\]]*\]/g              -> ''
MatchTTS(rule, s, i) ==
  CASE rule = "scheme" ->
         IF At(s, i, <<"h", "t", "t", "p", ":", "/", "/">>)
         THEN [len |-> 7, keep |-> <<>>]
         ELSE IF At(s, i, <<"h", "t", "t", "p", "s", ":", "/", "/">>)
         THEN [len |-> 8, keep |-> <<>>]
         ELSE [len |-> 0, keep |-> <<>>]
    [] rule = "link" ->
         LET text == Bracketed(s, i, "[", "]", 1)
             url  == IF text.end > 0
                     THEN Bracketed(s, text.end + 1, "(", ")", 1)
                     ELSE [end |-> 0, keep |-> <<>>]
         IN IF url.end > 0
            THEN [len |-> url.end - i + 1, keep |-> text.keep]
            ELSE [len |-> 0, keep |-> <<>>]
    [] rule = "spaces" ->
         LET w == Run(s, i, Whitespace, TRUE) IN
         [len |-> w, keep |-> IF w > 0 THEN <<" ">> ELSE <<>>]
    [] rule = "marker" ->
         LET m == Bracketed(s, i, "[", "]", 0) IN
         [len |-> IF m.end > 0 THEN m.end - i + 1 ELSE 0, keep |-> <<>>]

RECURSIVE ReplaceTTS(_, _, _)
\* s.replace(/pattern/g, replacement), from position i on.
ReplaceTTS(rule, s, i) ==
  LET hits == {j \in i..Len(s) : MatchTTS(rule, s, j).len > 0} IN
  IF hits = {} THEN SubSeq(s, i, Len(s))
  ELSE LET j == CHOOSE h \in hits : \A k \in hits : h <= k
           m == MatchTTS(rule, s, j)
       IN SubSeq(s, i, j - 1) \o m.keep \o ReplaceTTS(rule, s, j + m.len)

SanitizeForTTS(text) ==
  Trim(ReplaceTTS("spaces",
         ReplaceTTS("link", ReplaceTTS("scheme", text, 1), 1), 1))

StripMarkers(message) == Trim(ReplaceTTS("marker", message, 1))

\* The characters \w of a regular expression, among those the texts hold.
WordChars == {"a", "e", "h", "k", "p", "s", "t", "u"}

\* \b at position i of s: the characters before and at i differ in being
\* word characters.
Boundary(s, i) ==
  LET before == i > 1 /\ s[i - 1] \in WordChars
      here   == i <= Len(s) /\ s[i] \in WordChars
  IN before # here

RECURSIVE ReplaceTerm(_, _, _, _)
\* s.replace(new RegExp(`\\b${term}\\b`, 'gi'), pronunciation), from
\* position i on.
ReplaceTerm(term, pronunciation, s, i) ==
  LET hits == {j \in i..Len(s) :
                 /\ At(s, j, term)
                 /\ Boundary(s, j) /\ Boundary(s, j + Len(term))}
  IN IF hits = {} THEN SubSeq(s, i, Len(s))
     ELSE LET j == CHOOSE h \in hits : \A k \in hits : h <= k IN
          SubSeq(s, i, j - 1) \o pronunciation
            \o ReplaceTerm(term, pronunciation, s, j + Len(term))

RECURSIVE ApplyEntries(_, _)
\* The for loop of applyPronunciations over the entries of
\* pronunciations.json, a sequence of <<term, pronunciation>>.
ApplyEntries(entries, s) ==
  IF entries = <<>> THEN s
  ELSE ApplyEntries(Tail(entries),
                    ReplaceTerm(entries[1][1], entries[1][2], s, 1))

ApplyPronunciations(pronunciations, text) ==
  ApplyEntries(pronunciations, SanitizeForTTS(text))

\* A POST body's message from sendNotification to the back-end: validated
\* and sanitised, stripped of markers and enqueued; dequeued, stripped of
\* markers again, passed through applyPronunciations and handed to
\* generateSpeech or dispatchLocalTTS.
SpokenText(pronunciations, message) ==
  LET v == ValidateInput(Str(message)) IN
  IF ~v.valid
  THEN [accepted |-> FALSE, sanitized |-> <<>>, queued |-> <<>>,
        spoken |-> <<>>]
  ELSE LET queued == StripMarkers(v.sanitized) IN
       [accepted |-> TRUE, sanitized |-> v.sanitized, queued |-> queued,
        spoken |-> ApplyPronunciations(pronunciations, StripMarkers(queued))]

\* Pieces the messages considered are made of.
Pieces ==
  { <<"a">>, <<" ">>, <<"*">>, <<"[", "k", "]">>, <<"(", "u", ")">>,
    <<"h", "t", "t", "p", ":", "/", "/">>,
    <<"h", "t", "t", "p", "s", ":", "/", "/">> }

RECURSIVE Pieced(_)
\* The texts made of at most n pieces.
Pieced(n) ==
  IF n = 0 THEN {<<>>}
  ELSE LET shorter == Pieced(n - 1) IN
       shorter \cup {t \o c : t \in shorter, c \in Pieces}

\* The contents of pronunciations.json considered: none, or one term.
Dictionaries == {<<>>, << <<<<"a">>, <<"e", "h">>>> >>}

CallSpoken ==
  Returns("spoken",
          SpokenText(pure.arg.pronunciations, pure.arg.message))

----------------------------------------------------------------------------

\* The mutable state of the daemon when the module has been evaluated up to
\* server.ts:650.
Start ==
  /\ selectedLocalEngine = "os-tts"
  /\ initDone = FALSE
  /\ handler = [r \in Reqs |-> "none"]
  /\ response = [r \in Reqs |-> 0]
  /\ voiceEnabled = [r \in Reqs |-> TRUE]
  /\ queue = <<>>
  /\ isProcessing = FALSE
  /\ completion = [r \in Reqs |-> "none"]
  /\ pnv = [r \in Reqs |-> NoCall]
  /\ audioStatus = "none"
  /\ enqueued = <<>>
  /\ started = <<>>
  /\ now = 0
  /\ requestCounts = [k \in clients |-> NoRecord]
  /\ reply = NoReply
  /\ admitted = [k \in clients |-> [a \in Instants |-> 0]]
  /\ seen = [k \in clients |-> [open |-> 0, n |-> 0]]
  /\ tempFiles = {}

\* Every engine and player configuration, on a host whose stream query
\* works.
Init ==
  /\ ELEVENLABS_API_KEY \in BOOLEAN
  /\ envEngine \in {"piper", "qwen3"}
  /\ PAI_TTS_ENGINE = EngineOrDefault(envEngine)
  /\ piperAvailable \in BOOLEAN
  /\ qwen3Available \in BOOLEAN
  /\ LINUX_AUDIO_PLAYER_WAV \in BOOLEAN
  /\ LINUX_AUDIO_PLAYER_MP3 \in BOOLEAN
  /\ LINUX_TTS \in BOOLEAN
  /\ pactl = "works"
  /\ clients = {"localhost"}
  /\ rmRace = FALSE
  /\ Start
  /\ pure = NoEval

Next ==
  \/ SelectEngine
  \/ \E r \in Reqs, key \in clients : HttpNotify(r, key)
  \/ \E r \in Reqs : NotifyDone(r)
  \/ \E i \in Reqs : LoopResume(i)
  \/ \E i \in Reqs, ok \in BOOLEAN : SynthReturn(i, ok)
  \/ \E i \in Reqs : \E c \in pnv[i].plays : PlayerSpawn(i, c)
  \/ \E i \in Reqs : \E c \in pnv[i].plays :
        \E code \in {"exit0", "exitN", "error"} : PlayerExit(i, c, code)
  \/ \E i \in Reqs, ok \in BOOLEAN : SayExit(i, ok)
  \/ \E i \in Reqs : SayUnavailable(i)
  \/ \E i \in Reqs, out \in {"audio", "empty", "fail"} : GenReturn(i, out)

Spec == Init /\ [][Next]_vars

\* Hosts whose stream query can fail or does not exist, with the neural-GPU
\* engine preferred and no neural-CPU engine installed.
InitAudio ==
  /\ ELEVENLABS_API_KEY \in BOOLEAN
  /\ envEngine = "qwen3"
  /\ PAI_TTS_ENGINE = EngineOrDefault(envEngine)
  /\ piperAvailable = FALSE
  /\ qwen3Available \in BOOLEAN
  /\ LINUX_AUDIO_PLAYER_WAV = TRUE
  /\ LINUX_AUDIO_PLAYER_MP3 = TRUE
  /\ LINUX_TTS \in BOOLEAN
  /\ pactl \in {"unreliable", "none"}
  /\ clients = {"localhost"}
  /\ rmRace = FALSE
  /\ Start
  /\ pure = NoEval

SpecAudio == InitAudio /\ [][Next]_vars

\* The rate limiter under a running clock, for requests that are answered
\* at once.
InitRate ==
  /\ ELEVENLABS_API_KEY = FALSE
  /\ envEngine = "qwen3"
  /\ PAI_TTS_ENGINE = EngineOrDefault(envEngine)
  /\ piperAvailable = FALSE
  /\ qwen3Available = FALSE
  /\ LINUX_AUDIO_PLAYER_WAV = TRUE
  /\ LINUX_AUDIO_PLAYER_MP3 = TRUE
  /\ LINUX_TTS = TRUE
  /\ pactl = "works"
  /\ clients = {"localhost"}
  /\ rmRace = FALSE
  /\ Start
  /\ pure = NoEval

NextRate ==
  \/ \E t \in Instants : Tick(t)
  \/ \E key \in clients : HttpOptions(key)
  \/ \E key \in clients : HttpHealth(key)
  \/ \E key \in clients : HttpOther(key)
  \/ \E key \in clients, kind \in {"health", "other", "notify"} :
        HttpLimited(key, kind)

SpecRate == InitRate /\ [][NextRate]_vars

\* Start-up alone, for every environment: PAI_TTS_ENGINE absent, naming an
\* engine, or holding some other text.
InitSelect ==
  /\ ELEVENLABS_API_KEY \in BOOLEAN
  /\ envEngine \in {"unset", "piper", "qwen3", "espeak"}
  /\ PAI_TTS_ENGINE = EngineOrDefault(envEngine)
  /\ piperAvailable \in BOOLEAN
  /\ qwen3Available \in BOOLEAN
  /\ LINUX_AUDIO_PLAYER_WAV \in BOOLEAN
  /\ LINUX_AUDIO_PLAYER_MP3 \in BOOLEAN
  /\ LINUX_TTS \in BOOLEAN
  /\ pactl = "works"
  /\ clients = {"localhost"}
  /\ rmRace = FALSE
  /\ Start
  /\ pure = NoEval

NextSelect == SelectEngine

SpecSelect == InitSelect /\ [][NextSelect]_vars

\* The host of the function calls followed one at a time: the cloud
\* credential set, no neural engine, the daemon at rest.
Host ==
  /\ ELEVENLABS_API_KEY = TRUE
  /\ envEngine = "qwen3"
  /\ PAI_TTS_ENGINE = EngineOrDefault(envEngine)
  /\ piperAvailable = FALSE
  /\ qwen3Available = FALSE
  /\ LINUX_AUDIO_PLAYER_WAV = TRUE
  /\ LINUX_AUDIO_PLAYER_MP3 = TRUE
  /\ LINUX_TTS = TRUE
  /\ pactl = "works"
  /\ clients = {"localhost"}
  /\ rmRace = FALSE
  /\ Start

\* Prosody resolution for every request body, voice config and DA identity.
InitProsody ==
  /\ Host
  /\ \E in \in ProsodyInputs : pure = Eval("prosody", in)

NextProsody == CloudProsody

SpecProsody == InitProsody /\ [][NextProsody]_vars

\* sanitizeForSpeech and validateInput on every text considered, and the
\* /notify route on every body whose title and message are any JSON value.
InitInput ==
  /\ Host
  /\ \/ \E t \in Texts : pure = Eval("sanitizeForSpeech", t)
     \/ \E t \in Texts : pure = Eval("validateInput", Str(t))
     \/ \E v \in Values : pure = Eval("validateInput", v)
     \/ \E title \in Values, message \in Values :
          pure = Eval("notify", [title |-> title, message |-> message])

NextInput == CallSanitize \/ CallValidate \/ NotifyBody

SpecInput == InitInput /\ [][NextInput]_vars

\* splitIntoSentences on every message considered.
InitSplit ==
  /\ Host
  /\ \E t \in Messages : pure = Eval("splitIntoSentences", t)

NextSplit == CallSplit

SpecSplit == InitSplit /\ [][NextSplit]_vars

\* checkAudioStatus on every host and stream list considered.
InitStreams ==
  /\ Host
  /\ \E in \in StreamInputs : pure = Eval("checkAudioStatus", in)

NextStreams == CallCheckAudioStatus

SpecStreams == InitStreams /\ [][NextStreams]_vars

\* generateSpeechPiper on every run considered, for a few texts, with the
\* rm child racing the caller or not.
InitPiper ==
  /\ ELEVENLABS_API_KEY = FALSE
  /\ envEngine = "piper"
  /\ PAI_TTS_ENGINE = EngineOrDefault(envEngine)
  /\ piperAvailable \in BOOLEAN
  /\ qwen3Available = FALSE
  /\ LINUX_AUDIO_PLAYER_WAV = TRUE
  /\ LINUX_AUDIO_PLAYER_MP3 = TRUE
  /\ LINUX_TTS = TRUE
  /\ pactl = "works"
  /\ clients = {"localhost"}
  /\ rmRace \in BOOLEAN
  /\ Start
  /\ \E text \in Concats(1), run \in PiperRuns :
       /\ piperAvailable => run.binary
       /\ pure = Eval("generateSpeechPiper", [text |-> text, run |-> run])

NextPiper ==
  \/ GenerateSpeechPiper
  \/ \E f \in tempFiles : RmExit(f)

SpecPiper == InitPiper /\ [][NextPiper]_vars

\* Sentence-by-sentence playback on a neural-GPU host with or without a
\* player for its format, the clock standing or moving on by a
\* millisecond between two calls, an rm child possibly still running when
\* the code that awaits playAudio resumes.
InitNames ==
  /\ ELEVENLABS_API_KEY = FALSE
  /\ envEngine = "qwen3"
  /\ PAI_TTS_ENGINE = EngineOrDefault(envEngine)
  /\ piperAvailable = FALSE
  /\ qwen3Available = TRUE
  /\ LINUX_AUDIO_PLAYER_WAV \in BOOLEAN
  /\ LINUX_AUDIO_PLAYER_MP3 = TRUE
  /\ LINUX_TTS = TRUE
  /\ pactl = "none"
  /\ clients = {"localhost"}
  /\ rmRace = TRUE
  /\ Start
  /\ pure = NoEval

NextNames ==
  \/ SelectEngine
  \/ \E t \in {1} : Tick(t)
  \/ \E r \in Reqs, key \in clients : HttpNotify(r, key)
  \/ \E r \in Reqs : NotifyDone(r)
  \/ \E i \in Reqs : LoopResume(i)
  \/ \E i \in Reqs, ok \in BOOLEAN : SynthReturn(i, ok)
  \/ \E i \in Reqs : \E c \in pnv[i].plays : PlayerSpawn(i, c)
  \/ \E i \in Reqs : \E c \in pnv[i].plays :
        \E code \in {"exit0", "exitN", "error"} : PlayerExit(i, c, code)
  \/ \E i \in Reqs, ok \in BOOLEAN : SayExit(i, ok)
  \/ \E i \in Reqs, out \in {"audio", "empty", "fail"} : GenReturn(i, out)
  \/ \E f \in tempFiles : RmExit(f)

SpecNames == InitNames /\ [][NextNames]_vars

\* The path of a message from the POST body to the back-end, for every
\* message and dictionary considered.
InitSpoken ==
  /\ Host
  /\ \E t \in Pieced(MaxChunks), d \in Dictionaries :
       pure = Eval("spoken", [pronunciations |-> d, message |-> t])

NextSpoken == CallSpoken

SpecSpoken == InitSpoken /\ [][NextSpoken]_vars

\* The queue under fair scheduling, on a host where every call of
\* processNotificationVoice returns: cloud or OS speech tool, no neural
\* engine.  A callback that is ready runs, and a child process or request
\* that was started ends.
InitLive ==
  /\ ELEVENLABS_API_KEY \in BOOLEAN
  /\ envEngine = "qwen3"
  /\ PAI_TTS_ENGINE = EngineOrDefault(envEngine)
  /\ piperAvailable = FALSE
  /\ qwen3Available = FALSE
  /\ LINUX_AUDIO_PLAYER_WAV = TRUE
  /\ LINUX_AUDIO_PLAYER_MP3 = TRUE
  /\ LINUX_TTS = TRUE
  /\ pactl = "works"
  /\ clients = {"localhost"}
  /\ rmRace = FALSE
  /\ Start
  /\ pure = NoEval

NextLive ==
  \/ SelectEngine
  \/ \E r \in Reqs, key \in clients : HttpNotify(r, key)
  \/ \E r \in Reqs : NotifyDone(r)
  \/ \E i \in Reqs : LoopResume(i)
  \/ \E i \in Reqs, ok \in BOOLEAN : SynthReturn(i, ok)
  \/ \E i \in Reqs : \E c \in pnv[i].plays : PlayerSpawn(i, c)
  \/ \E i \in Reqs : \E c \in pnv[i].plays :
        \E code \in {"exit0", "exitN", "error"} : PlayerExit(i, c, code)
  \/ \E i \in Reqs, ok \in BOOLEAN : SayExit(i, ok)

SpecLive ==
  /\ InitLive
  /\ [][NextLive]_vars
  /\ WF_vars(\E i \in Reqs : LoopResume(i))
  /\ WF_vars(\E i \in Reqs, ok \in BOOLEAN : SynthReturn(i, ok))
  /\ WF_vars(\E i \in Reqs : \E c \in pnv[i].plays : PlayerSpawn(i, c))
  /\ WF_vars(\E i \in Reqs : \E c \in pnv[i].plays :
               \E code \in {"exit0", "exitN", "error"} : PlayerExit(i, c, code))
  /\ WF_vars(\E i \in Reqs, ok \in BOOLEAN : SayExit(i, ok))

\* Cloud synthesis and playback with or without an mp3 player, the speech
\* tool as fallback, on a host where an rm child can still be running when
\* the code that awaits playAudio resumes.
InitFiles ==
  /\ ELEVENLABS_API_KEY = TRUE
  /\ envEngine = "qwen3"
  /\ PAI_TTS_ENGINE = EngineOrDefault(envEngine)
  /\ piperAvailable = FALSE
  /\ qwen3Available = FALSE
  /\ LINUX_AUDIO_PLAYER_WAV = TRUE
  /\ LINUX_AUDIO_PLAYER_MP3 \in BOOLEAN
  /\ LINUX_TTS = TRUE
  /\ pactl = "none"
  /\ clients = {"localhost"}
  /\ rmRace = TRUE
  /\ Start
  /\ pure = NoEval

NextFiles ==
  \/ SelectEngine
  \/ \E r \in Reqs, key \in clients : HttpNotify(r, key)
  \/ \E r \in Reqs : NotifyDone(r)
  \/ \E i \in Reqs : LoopResume(i)
  \/ \E i \in Reqs, ok \in BOOLEAN : SynthReturn(i, ok)
  \/ \E i \in Reqs : \E c \in pnv[i].plays : PlayerSpawn(i, c)
  \/ \E i \in Reqs : \E c \in pnv[i].plays :
        \E code \in {"exit0", "exitN", "error"} : PlayerExit(i, c, code)
  \/ \E i \in Reqs, ok \in BOOLEAN : SayExit(i, ok)
  \/ \E f \in tempFiles : RmExit(f)

SpecFiles == InitFiles /\ [][NextFiles]_vars

\* POST requests of every kind (valid, invalid, voice disabled) on a host
\* with the OS speech tool only and no stream query, the clock standing
\* still; the other routes are those of SpecRate.
InitHttp ==
  /\ ELEVENLABS_API_KEY = FALSE
  /\ envEngine = "qwen3"
  /\ PAI_TTS_ENGINE = EngineOrDefault(envEngine)
  /\ piperAvailable = FALSE
  /\ qwen3Available = FALSE
  /\ LINUX_AUDIO_PLAYER_WAV = TRUE
  /\ LINUX_AUDIO_PLAYER_MP3 = TRUE
  /\ LINUX_TTS = TRUE
  /\ pactl = "none"
  /\ clients = {"localhost"}
  /\ rmRace = FALSE
  /\ Start
  /\ pure = NoEval

NextHttp ==
  \/ SelectEngine
  \/ \E r \in Reqs, key \in clients : HttpNotify(r, key)
  \/ \E r \in Reqs, key \in clients, err \in PostErrors :
        HttpInvalid(r, key, err)
  \/ \E r \in Reqs, key \in clients : HttpSilent(r, key)
  \/ \E r \in Reqs : NotifyDone(r)
  \/ \E i \in Reqs : LoopResume(i)
  \/ \E i \in Reqs, ok \in BOOLEAN : SayExit(i, ok)

SpecHttp == InitHttp /\ [][NextHttp]_vars

----------------------------------------------------------------------------
\* Derived notions used by the properties

InFlight(i) == pnv[i].phase \in {"primary", "fallback"}

\* The player children that are running.
Players ==
  {ic \in Reqs \X (UNION {pnv[i].plays : i \in Reqs}) :
     ic[2] \in pnv[ic[1]].plays /\ ic[2].st = "player"}

Range(f) == {f[k] : k \in DOMAIN f}

\* No call or child of item i is outstanding.
Idle(i) ==
  /\ pnv[i].plays = {}
  /\ pnv[i].op \notin {"cloudGen", "piperGen", "qwenGen", "playAudio", "say", "sayNone"}
  /\ pnv[i].op = "pipeline" => pnv[i].pl.generationComplete

InPipeline(i) == pnv[i].pl.n > 0

TypeOK ==
  /\ selectedLocalEngine \in Engines
  /\ handler \in [Reqs -> {"none", "notify", "done"}]
  /\ response \in [Reqs -> {0, 200, 400, 500}]
  /\ completion \in [Reqs -> {"none", "pending", "resolved", "rejected"}]
  /\ \A i \in Reqs :
       /\ pnv[i].phase \in {"idle", "primary", "fallback", "returned",
                            "released"}
       /\ pnv[i].n \in 0..MaxSent
       /\ pnv[i].pl.currentIndex \in 1..(MaxSent + 1)

----------------------------------------------------------------------------
\* C1: at most one audio player child process is running at any instant,
\* over all requests, queue steps, pipeline steps and fallback attempts.
C1_OnePlayer == Cardinality(Players) <= 1

\* C1 witness: inside the progressive pipeline a player runs while the
\* generation of a later sentence is in flight and another item waits.
C1_Witness ==
  \E i \in Reqs :
    /\ pnv[i].op = "pipeline"
    /\ \E c \in pnv[i].plays : c.st = "player"
    /\ pnv[i].pl.gen <= pnv[i].pl.n
    /\ queue # <<>>

\* C2: when the queue has started item I right after item J, the whole
\* processing of J has returned: J is released, and a call that has returned
\* has left no synthesis call, file write or player child behind.
C2_Sequential ==
  /\ \A k \in 1..Len(started) :
       k < Len(started) => pnv[started[k]].phase = "released"
  /\ \A j \in Reqs :
       pnv[j].phase \in {"returned", "released"} =>
         pnv[j].plays = {} /\ pnv[j].op = "none"
  /\ Cardinality({j \in Reqs : pnv[j].phase \in {"primary", "fallback", "returned"}}) <= 1

\* C2 witness: a later item is in its fallback attempt, the items dequeued
\* before it are released and another item waits.
C2_Witness ==
  /\ Len(started) >= 2
  /\ pnv[started[Len(started)]].phase = "fallback"
  /\ pnv[started[1]].phase = "released"
  /\ queue # <<>>

\* C3: items leave the queue in the order enqueue was called: the sequence
\* of dequeued items is a prefix of the sequence of enqueued items.
C3_Fifo ==
  /\ Len(started) <= Len(enqueued)
  /\ \A k \in 1..Len(started) : started[k] = enqueued[k]
  /\ \A k \in 1..Len(queue) : queue[k] = enqueued[Len(started) + k]

\* C3 witness: two items wait while the first, whose primary path failed, is
\* in its fallback attempt.
C3_Witness ==
  /\ Len(queue) = 2
  /\ Len(started) = 1
  /\ pnv[started[1]].phase = "fallback"

\* C4: the handler of a valid voice request answers without awaiting the
\* item: whenever sendNotification has enqueued, the 200 response can be
\* produced whatever the state of the item, and the next request can be
\* handled whatever is in flight.
C4_FireAndForget ==
  /\ \A r \in Reqs : handler[r] = "notify" => ENABLED NotifyDone(r)
  /\ \A r \in Reqs :
       (Serving /\ handler[r] = "none" /\ \A s \in Reqs : s < r => handler[s] # "none")
         => \E key \in clients : ENABLED HttpNotify(r, key)
  /\ \A r \in Reqs : response[r] = 200 => handler[r] = "done"

\* C4 witness: a request has its 200 while its item is still being
\* synthesised, and a later request has been answered while it waits in
\* the queue.
C4_Witness ==
  \E r, s \in Reqs :
    /\ r # s
    /\ response[r] = 200 /\ pnv[r].op \in {"cloudGen", "piperGen", "qwenGen", "pipeline"}
    /\ response[s] = 200 /\ completion[s] = "pending" /\ pnv[s].phase = "idle"

\* C5: the progressive pipeline resolves once every generation call and
\* every player process has terminated, whatever the outcomes: a pipeline
\* whose generation task has finished and that has no playback left in
\* flight has resolved.
C5_PipelineResolves ==
  \A i \in Reqs :
    (InPipeline(i) /\ pnv[i].pl.generationComplete /\ pnv[i].plays = {})
      => pnv[i].phase = "returned"

\* C6: in the pipeline sentences are handed to the player in increasing
\* index order, each at most once, only after their generation completed,
\* and only when the playback before has returned (one playAudio call at a
\* time, the one for the sentence handed over last).
C6_PlaybackOrder ==
  \A i \in Reqs : InPipeline(i) =>
    LET pl == pnv[i].pl IN
    /\ \A a, b \in 1..Len(pl.played) : a < b => pl.played[a] < pl.played[b]
    /\ \A k \in 1..Len(pl.played) : pl.audioQueue[pl.played[k]] # "undefined"
    /\ Cardinality(pnv[i].plays) <= 1
    /\ \A c \in pnv[i].plays :
         pl.played # <<>> /\ c.slot = pl.played[Len(pl.played)] /\ pl.isPlaying

\* C6 witness: the second sentence is being played after the first.
C6_Witness ==
  \E i \in Reqs :
    /\ pnv[i].pl.played = <<1, 2>>
    /\ \E c \in pnv[i].plays : c.slot = 2 /\ c.st = "player"

EngineOfOp(op) ==
  CASE op = "piperGen" -> "piper"
    [] op \in {"qwenGen", "pipeline"} -> "qwen3"
    [] op \in {"say", "sayNone"} -> "os-tts"
    [] OTHER -> "none"

\* An exception of the primary path reached the catch of
\* processNotificationVoice.
PrimaryThrew(i) ==
  \E k \in {"synth", "play", "say"} : <<"primary", k>> \in pnv[i].failed

C8_State ==
  \A i \in Reqs :
    /\ pnv[i].fallbacks <= 1
    /\ PrimaryThrew(i) <=> pnv[i].fallbacks = 1
    /\ pnv[i].phase = "fallback" => pnv[i].fallbacks = 1
    /\ (/\ ELEVENLABS_API_KEY /\ ~piperAvailable /\ ~qwen3Available
        /\ <<"primary", "synth">> \in pnv[i].failed)
         => pnv[i].says = 1 /\ pnv[i].spawns = 0 /\ pnv[i].calls = 0

C8_Step ==
  \A i \in Reqs :
    (pnv[i].phase = "primary" /\ pnv'[i].phase = "fallback") =>
      /\ EngineOfOp(pnv'[i].op) = selectedLocalEngine
      /\ pnv'[i].fallbacks = 1

\* C8: an exception of the primary path is followed by exactly one fallback
\* dispatch, to the engine held in the cached selection (no new probe); with
\* the cloud credential set, the cloud call rejected and no local engine
\* available this is one call of the OS speech tool and no player.
C8_FallbackOnce == []C8_State /\ [][C8_Step]_vars

\* C8 witness: cloud rejected, no neural engine available, the item returned
\* after one OS-TTS invocation and no player.
C8_Witness ==
  \E i \in Reqs :
    /\ ELEVENLABS_API_KEY /\ ~piperAvailable /\ ~qwen3Available
    /\ <<"primary", "synth">> \in pnv[i].failed
    /\ pnv[i].phase = "returned"
    /\ pnv[i].says = 1 /\ pnv[i].spawns = 0

\* C9 as stated: every synthesis or playback failure on the primary path,
\* the progressive pipeline included, triggers the fallback attempt.
C9_EveryFailureFallsBack ==
  \A i \in Reqs :
    (\E k \in {"synth", "play", "pipeline"} : <<"primary", k>> \in pnv[i].failed)
      => pnv[i].fallbacks = 1

\* C9 amended: a synthesis or playback failure on the primary path triggers
\* the fallback attempt on every path but the progressive one; a failure
\* inside the progressive pipeline is caught there and triggers none.
C9_FailureFallsBack ==
  \A i \in Reqs :
    /\ (\E k \in {"synth", "play"} : <<"primary", k>> \in pnv[i].failed)
         => pnv[i].fallbacks = 1
    /\ <<"primary", "pipeline">> \in pnv[i].failed => pnv[i].fallbacks = 0

\* C9 witness: the single-sentence neural-GPU synthesis failed on the primary
\* path and the fallback attempt is running.
C9_Witness ==
  \E i \in Reqs :
    /\ ~ELEVENLABS_API_KEY
    /\ pnv[i].n = 1
    /\ <<"primary", "synth">> \in pnv[i].failed
    /\ pnv[i].phase = "fallback"
    /\ pnv[i].op = "qwenGen"

\* The item dequeued last.
LastStarted == started[Len(started)]

\* The items dequeued by the step.
Dequeued(i) ==
  /\ \A k \in 1..Len(started) : started[k] # i
  /\ \E k \in 1..Len(started') : started'[k] = i

C11_State ==
  /\ audioStatus = "foreign" =>
       /\ started # <<>>
       /\ pnv[LastStarted] = Released
       /\ completion[LastStarted] = "resolved"
       /\ queue = <<>> /\ ~isProcessing
  /\ \A i \in Reqs :
       /\ pnv[i].phase = "released" =>
            completion[i] = "resolved" /\ i \notin Range(queue)
       /\ pnv[i].phase \in {"primary", "fallback", "returned"} =>
            completion[i] = "pending" /\ i \notin Range(queue)

C11_Step ==
  /\ \A i \in Reqs :
       /\ Dequeued(i) =>
            \/ /\ pnv'[i] = Released
               /\ completion'[i] = "resolved"
               /\ i \notin Range(queue')
               /\ isProcessing' \/ queue' = <<>>
            \/ /\ i = started'[Len(started')]
               /\ pnv'[i].phase = "primary"
               /\ audioStatus' # "foreign"
       /\ pnv[i].phase = "released" => pnv'[i] = Released
  /\ (audioStatus' = "foreign" /\ started' # started) =>
       \A i \in Reqs : Dequeued(i) => pnv'[i] = Released

\* C11: an item whose external-audio check reports a foreign stream is
\* dropped: in the step that dequeues it its completion is resolved, it gets
\* no synthesis and no player (its call record stays empty), it is not put
\* back in the queue and never processed later, and the loop goes on with the
\* next item or ends with the queue empty.
C11_ForeignAudioDrops == []C11_State /\ [][C11_Step]_vars

\* C11 witness: the latest check found foreign audio, the item it was made
\* for is resolved without a call, after an earlier item was dequeued.
C11_Witness ==
  /\ audioStatus = "foreign"
  /\ Len(started) >= 2
  /\ completion[LastStarted] = "resolved"
  /\ pnv[LastStarted] = Released

C12_State ==
  /\ \A i \in Reqs : completion[i] # "rejected"
  /\ (audioStatus \in {"failed", "noquery"} /\ isProcessing) =>
       /\ started # <<>>
       /\ pnv[LastStarted].phase \in {"primary", "fallback", "returned"}
       /\ completion[LastStarted] = "pending"

C12_Step ==
  /\ (audioStatus' \in {"failed", "noquery"} /\ started' # started) =>
       /\ pnv'[started'[Len(started')]].phase = "primary"
       /\ completion'[started'[Len(started')]] = "pending"
       /\ isProcessing'
  /\ pactl = "none" =>
       \A i \in Reqs : Dequeued(i) => pnv'[i].phase = "primary"

\* C12: when the stream query fails, or the platform has no query, the item
\* the check was made for is processed normally: it enters
\* processNotificationVoice with its completion pending, it is not dropped,
\* and no completion is ever rejected.
C12_FailOpen == []C12_State /\ [][C12_Step]_vars

\* C12 witness: the query failed and the item is being synthesised or
\* spoken.
C12_Witness ==
  /\ audioStatus = "failed"
  /\ started # <<>>
  /\ pnv[LastStarted].phase = "primary"
  /\ pnv[LastStarted].op # "none"

RECURSIVE SumOver(_, _)
SumOver(f, S) ==
  IF S = {} THEN 0
  ELSE LET a == CHOOSE x \in S : TRUE IN f[a] + SumOver(f, S \ {a})

\* The requests of key admitted in the 60 000 ms that end now.
AdmittedInWindow(key) ==
  SumOver(admitted[key], {a \in Instants : a <= now /\ a + RATE_WINDOW > now})

\* C13: for every key, at most RATE_LIMIT requests are admitted in any
\* interval of RATE_WINDOW ms: in the one that ends at the current instant.
C13_SlidingWindow ==
  \A key \in clients : AdmittedInWindow(key) <= RATE_LIMIT

\* C14: for one key, the request that opens a window and the next 9 up to
\* the deadline are admitted (the counter is their number), the 11th and
\* later ones get 429 'Rate limit exceeded' and leave the bucket alone, and
\* the first request after the deadline opens a new window: counter 1,
\* deadline 60 000 ms after it.
C14_Bucket ==
  \A key \in clients :
    LET rec == requestCounts[key]
        sn  == seen[key] IN
    /\ sn.n = 0 <=> rec.count = 0
    /\ sn.n > 0 =>
         /\ rec.resetTime = sn.open + RATE_WINDOW
         /\ rec.count = IF sn.n > RATE_LIMIT THEN RATE_LIMIT ELSE sn.n
    /\ (reply.key = key /\ reply.kind \notin {"none", "options"}) =>
         IF sn.n > RATE_LIMIT
         THEN reply.status = 429 /\ reply.message = "Rate limit exceeded"
         ELSE reply.status = 200

\* C14 witness: after a window that took its 10 requests, a request past the
\* deadline was admitted and opened a new window.
C14_Witness ==
  \E key \in clients :
    /\ requestCounts[key] = [count |-> 1, resetTime |-> now + RATE_WINDOW]
    /\ reply.key = key /\ reply.status = 200
    /\ now > RATE_WINDOW
    /\ AdmittedInWindow(key) = RATE_LIMIT

\* C15: GET /health is answered 200 'healthy' after every history of
\* earlier requests.
C15_HealthNeverFails ==
  reply.kind = "health" => reply.status = 200 /\ reply.message = "healthy"

\* C16: a request whose title or message fails validation (or whose
\* voice_id is not a string) is answered 400 with an 'Invalid ...' message
\* by the step that handles it, and nothing of it reaches the queue: it has
\* no queue item, no completion and no synthesis or playback, ever.
C16_ValidationRejects ==
  /\ \A r \in Reqs :
       response[r] \in {400, 500} =>
         /\ handler[r] = "done"
         /\ completion[r] = "none"
         /\ r \notin Range(enqueued) /\ r \notin Range(queue)
         /\ pnv[r] = NoCall
  /\ (reply.kind = "notify" /\ reply.status # 429) =>
       (reply.status = 400 <=>
          reply.message \in {"Invalid title", "Invalid message", "Invalid voice_id"})
  /\ Len(enqueued) + Cardinality({r \in Reqs : response[r] \in {400, 500}})
       <= Cardinality({r \in Reqs : handler[r] # "none"})

\* C16 witness: a request was answered 400 for its title while the item of
\* an earlier request is being spoken, and a later valid request waits.
C16_Witness ==
  \E r \in Reqs :
    /\ response[r] = 400
    /\ \E i \in Reqs : i < r /\ pnv[i].op = "say"
    /\ queue # <<>>

\* C17: on every exit path of playAudio (exit 0, non-zero exit, spawn
\* error, no player) the temp file of the call no longer exists when the
\* call returns: no file of a returned call is on disk.
C17_TempFileRemoved == tempFiles = {}

\* C18: the engine is fixed once, after the probes and before any request is
\* dispatched: every local dispatch, also of a request that arrives while
\* the start-up probes run, and every /health response uses the engine the
\* initialisation-time selection produces.
C18_EngineFixedOnce ==
  LET engine == SelectLocalTTSEngine(PAI_TTS_ENGINE, piperAvailable,
                                     qwen3Available) IN
  /\ \A i \in Reqs :
       pnv[i].op \in {"piperGen", "qwenGen", "pipeline", "say", "sayNone"}
         => EngineOfOp(pnv[i].op) = engine
  /\ (reply.kind = "health" /\ reply.status = 200) => reply.engine = engine

C20_AutoDetectOrder ==
  (envEngine = "unset" /\ ~ELEVENLABS_API_KEY /\ initDone) =>
    selectedLocalEngine =
      IF piperAvailable THEN "piper"
      ELSE IF qwen3Available THEN "qwen3"
      ELSE "os-tts"

C22_OverrideSkipsCloud ==
  \A i \in Reqs :
    ( pnv[i].phase = "primary"
      /\ ( (envEngine = "piper" /\ piperAvailable)
           \/ (envEngine = "qwen3" /\ qwen3Available) ) )
      => /\ pnv[i].op # "cloudGen"
         /\ \A c \in pnv[i].plays : c.fmt = "wav"

\* The record a request's voice is looked up to.
LookedUp(in) ==
  IF in.voiceConfig.kind # "none" THEN in.voiceConfig.fields
  ELSE IF in.isDefault /\ in.da.given THEN in.da.fields
  ELSE Empty

\* C23: on the cloud path every prosody field sent upstream is the
\* request's voice_settings value if the request supplied the field, else
\* the looked-up voice-config value if the config has it, else the default;
\* no field is undefined; and the request replaces no field it did not
\* supply, the volume included.
C23_ProsodyPrecedence ==
  (pure.fn = "prosody" /\ pure.done) =>
    LET in == pure.arg
        supplied(f) == in.data.has_settings /\ in.data.voice_settings[f] # "absent"
    IN /\ \A f \in ProsodyFields :
            /\ pure.result.voice_settings[f] # "undefined"
            /\ pure.result.voice_settings[f] =
                 IF supplied(f) THEN "request"
                 ELSE IF LookedUp(in)[f] # "absent" THEN LookedUp(in)[f]
                 ELSE "default"
       /\ pure.result.volume =
            IF in.data.volume # "undefined" THEN "request.volume"
            ELSE IF supplied("volume") THEN "request"
            ELSE IF LookedUp(in)["volume"] # "absent" THEN LookedUp(in)["volume"]
            ELSE IF in.da.given /\ in.da.fields["volume"] # "absent" THEN "da"
            ELSE "1.0"

\* C24: validateInput accepts a title or message iff its sanitised, trimmed
\* form has length 1..500; in particular an input of 501 characters that
\* sanitises to at most 500 is accepted.
C24_AcceptsBySanitisedLength ==
  (pure.fn = "validateInput" /\ pure.done /\ pure.arg.type = "string") =>
    (pure.result.valid <=>
       Len(SanitizeForSpeech(pure.arg.text)) \in 1..MaxInputLength)

\* C25: a title or message that is not a string (number, boolean, null,
\* object, array) yields HTTP 400.
C25_NonStringRejected ==
  (pure.fn = "notify" /\ pure.done) =>
    ( (\E f \in {"title", "message"} :
         pure.arg[f].type \in {"number", "boolean", "null", "object", "array"})
      => pure.result = 400 )

\* C26: sanitizeForSpeech is idempotent.
C26_SanitiseIdempotent ==
  (pure.fn = "sanitizeForSpeech" /\ pure.done) =>
    SanitizeForSpeech(pure.result) = pure.result

RECURSIVE Join(_)
\* sentences.join(" ")
Join(sentences) ==
  IF sentences = <<>> THEN <<>>
  ELSE IF Len(sentences) = 1 THEN sentences[1]
  ELSE sentences[1] \o <<" ">> \o Join(Tail(sentences))

\* A text without its whitespace and its terminators.
Words(text) ==
  LET IsWord(c) == c \notin Whitespace \cup Terminators IN
  SelectSeq(text, IsWord)

\* C27: splitIntoSentences loses no text: the sentences joined with single
\* spaces are the message up to whitespace and terminators at the
\* boundaries, also when a terminator is not followed by whitespace or the
\* message starts with terminators.  (Here: at least every character that
\* is neither whitespace nor a terminator is kept, in order.)
C27_SplitLosesNoText ==
  (pure.fn = "splitIntoSentences" /\ pure.done) =>
    Words(Join(pure.result)) = Words(pure.arg)

\* C28: no queued item is stranded: when every processNotificationVoice
\* call returns, every item passed to enqueue is eventually dequeued and
\* its completion settled, whenever the enqueue lands.
C28_NoItemStranded ==
  \A i \in Reqs :
    (completion[i] = "pending") ~>
      (completion[i] \in {"resolved", "rejected"} /\ i \in Range(started))

\* C28 witness: an item that had to wait in the queue behind another one
\* has been dequeued and settled, and the loop has exited.
C28_Witness ==
  \E k \in 2..Len(started) :
    /\ started[k] \in Range(enqueued)
    /\ completion[started[k]] = "resolved"
    /\ ~isProcessing /\ queue = <<>>

\* Item i has a synthesis call in flight: a cloud, neural-CPU or
\* single-sentence neural-GPU request, or the generator of its pipeline
\* awaiting a sentence.
Synthesising(i) ==
  \/ pnv[i].op \in {"cloudGen", "piperGen", "qwenGen"}
  \/ pnv[i].op = "pipeline" /\ pnv[i].pl.gen <= pnv[i].pl.n

\* C29: process-wide at most one synthesis call is in flight; the single
\* generator of a pipeline takes the sentences in order, starting sentence
\* g only when every sentence before it has returned or failed (its slot is
\* filled) and no later one was started; a player may run meanwhile, for
\* an earlier sentence only.
C29_OneSynthesis ==
  /\ Cardinality({i \in Reqs : Synthesising(i)}) <= 1
  /\ \A i \in Reqs :
       InPipeline(i) =>
         /\ \A k \in 1..pnv[i].pl.n :
              (pnv[i].pl.audioQueue[k] # "undefined") <=> (k < pnv[i].pl.gen)
         /\ \A c \in pnv[i].plays : c.slot < pnv[i].pl.gen

\* C29 witness: the generator awaits the second sentence while the player
\* of the first one runs.
C29_Witness ==
  \E i \in Reqs :
    /\ InPipeline(i) /\ pnv[i].pl.gen = 2 /\ Synthesising(i)
    /\ \E c \in pnv[i].plays : c.slot = 1 /\ c.st = "player"

C30_State ==
  \A r \in Reqs :
    ~voiceEnabled[r] =>
      /\ completion[r] = "none"
      /\ r \notin Range(enqueued) /\ r \notin Range(queue)
      /\ pnv[r] = NoCall
      /\ handler[r] \in {"notify", "done"}
      /\ handler[r] = "done" => response[r] = 200

C30_Step ==
  \A r \in Reqs :
    (voiceEnabled[r] /\ ~voiceEnabled'[r]) =>
      /\ UNCHANGED <<queue, isProcessing, completion, pnv, enqueued, started>>
      /\ handler'[r] = "notify"

\* C30: a valid request with voice_enabled=false enqueues nothing and
\* triggers no synthesis or playback: the step that handles it leaves the
\* audio queue and every call as they were; the desktop notification is
\* dispatched and the response is 200.
C30_VoiceDisabled == []C30_State /\ [][C30_Step]_vars

\* C30 witness: a voice-disabled request was answered 200 while the item
\* of another request is being spoken.
C30_Witness ==
  \E r \in Reqs :
    /\ ~voiceEnabled[r] /\ response[r] = 200
    /\ \E i \in Reqs : pnv[i].op = "say"

\* C10: errors of queue processing never reach the caller and never stop the
\* queue: every response is 200, no completion is rejected, and an item
\* whose primary path and fallback have failed and that has nothing left in
\* flight has returned from processNotificationVoice.
C10_ErrorsSwallowed ==
  /\ \A r \in Reqs : response[r] \in {0, 200} /\ completion[r] # "rejected"
  /\ \A i \in Reqs :
       (/\ pnv[i].fallbacks = 1
        /\ \E k \in {"synth", "play", "say", "pipeline"} :
              <<"fallback", k>> \in pnv[i].failed
        /\ Idle(i))
         => pnv[i].phase = "returned"

\* The stream is one of this daemon: its application name is the player
\* the probes chose for the uncompressed format and its media name is a
\* /tmp/voice-* file with the extension of that format.
OwnStream(entry, installed) ==
  /\ entry.app = DetectLinuxAudioPlayer("wav", installed)
  /\ entry.media = "/tmp/voice-1.wav"

\* C31: checkAudioStatus classifies an active stream as this daemon's own
\* iff its application name is the uncompressed-format player chosen by the
\* probes and its media name matches /tmp/voice-*.wav; every other active
\* stream is classified foreign, which is what drops the queued item.
C31_StreamClassified ==
  (pure.fn = "checkAudioStatus" /\ pure.done /\ pure.arg.query = "works") =>
    LET in == pure.arg IN
    /\ pure.result.paiAudioPlaying <=>
         \E k \in 1..Len(in.entries) : OwnStream(in.entries[k], in.installed)
    /\ pure.result.otherAudioPlaying <=>
         \E k \in 1..Len(in.entries) : ~OwnStream(in.entries[k], in.installed)

\* C32: generateSpeechPiper leaves no temporary output file behind: on
\* success and on every failure path (non-zero exit, spawn error,
\* unreadable output) the /tmp/voice-piper-* file is removed before the
\* call returns.
C32_PiperFileRemoved ==
  (pure.fn = "generateSpeechPiper" /\ pure.done) =>
    PiperOutputFile \notin tempFiles

\* C33: any two temporary audio files created by playAudio have distinct
\* paths, so the deletion issued for one playback never removes the file of
\* another one: no playAudio call in flight has the path of a file whose rm
\* child, spawned by an earlier call, is still to run.
C33_DistinctTempFiles ==
  \A i \in Reqs : \A c \in pnv[i].plays : TempFile(c) \notin tempFiles

\* The positions of s where a markdown link [text](url) starts.
Links(s) == {i \in 1..Len(s) : MatchTTS("link", s, i).len > 0}

\* The number of occurrences of character c in s.
Count(s, c) == Cardinality({k \in 1..Len(s) : s[k] = c})

\* C34: for every accepted message with a markdown link [text](url) the text
\* handed to the back-end has the link flattened: the link text is spoken
\* and the URL is not.  (The link texts here are "k" and the URLs "u".)
C34_LinkFlattened ==
  (pure.fn = "spoken" /\ pure.done /\ pure.result.accepted
     /\ Links(pure.result.sanitized) # {}) =>
    LET n == Cardinality(Links(pure.result.sanitized)) IN
    /\ Count(pure.result.spoken, "k") >= n
    /\ Count(pure.result.spoken, "u")
         <= Count(pure.result.sanitized, "u") - n

\* C37: the text handed to a back-end is never empty: every message that
\* passes validation is still non-empty after bracket-marker stripping and
\* pronunciation/URL processing.
C37_SpokenTextNonEmpty ==
  (pure.fn = "spoken" /\ pure.done /\ pure.result.accepted) =>
    pure.result.spoken # <<>>

\* The items a processQueue loop holds: dequeued, their completion not yet
\* settled.  The loop is suspended at its await on processNotificationVoice.
LoopItems == {i \in Reqs : pnv[i].phase \in {"primary", "fallback", "returned"}}

C35_State ==
  /\ queue # <<>> => isProcessing
  /\ Cardinality(LoopItems) <= 1
  /\ isProcessing <=> LoopItems # {}

\* The step is an enqueue while a loop is active: it appends and nothing
\* else.
C35_Step ==
  (isProcessing /\ enqueued' # enqueued) =>
    /\ \E r \in Reqs : enqueued' = Append(enqueued, r) /\ queue' = Append(queue, r)
    /\ isProcessing'
    /\ LoopItems' = LoopItems
    /\ UNCHANGED <<pnv, started>>

\* C35: at every suspension point of the event loop a non-empty queue
\* implies isProcessing, at most one processQueue loop is active
\* (isProcessing iff a loop is active), and an enqueue during an active loop
\* only appends and never starts a second loop.
C35_QueueInvariant == []C35_State /\ [][C35_Step]_vars

\* C35 witness: an item was enqueued while the loop awaits the synthesis of
\* an earlier one, and waits in the queue.
C35_Witness ==
  /\ isProcessing
  /\ Len(queue) >= 1
  /\ \E i \in LoopItems : pnv[i].op \in {"cloudGen", "piperGen", "qwenGen"}

Settled(c) == c \in {"resolved", "rejected"}

\* The items the step dequeues and skips because of foreign audio.
Skipped(i) == Dequeued(i) /\ pnv'[i].phase = "released"

C36_State ==
  /\ \A i \in Reqs :
       Settled(completion[i]) =>
         i \in Range(started) /\ pnv[i].phase = "released"
  /\ (~isProcessing /\ queue = <<>>) =>
       \A i \in Range(enqueued) : Settled(completion[i])

C36_Step ==
  \A i \in Reqs :
    /\ Settled(completion[i]) => completion'[i] = completion[i]
    /\ (~Settled(completion[i]) /\ Settled(completion'[i])) =>
         i \in Range(started')
    /\ Skipped(i) => completion'[i] = "resolved"

\* C36: for every queued item exactly one of its two completion sinks is
\* invoked, exactly once, and only after the item has been dequeued (a
\* settled completion never changes, and when the loop has exited every
\* enqueued item is settled); an item dropped because of foreign audio is
\* resolved, never rejected.
C36_OneCompletion == []C36_State /\ [][C36_Step]_vars

\* C36 witness: the loop has exited, every item it dequeued is resolved,
\* the last one because it was skipped.
C36_Witness ==
  /\ ~isProcessing /\ queue = <<>>
  /\ Len(started) >= 2
  /\ audioStatus = "foreign"
  /\ \A i \in Range(started) : completion[i] = "resolved"

C38_State ==
  \A key \in clients :
    requestCounts[key] = NoRecord \/ requestCounts[key].count \in 1..RATE_LIMIT

\* The step answers a request with 429: no cell changes.
C38_Step ==
  \A key \in clients, kind \in {"health", "other", "notify"} :
    HttpLimited(key, kind) => UNCHANGED requestCounts

\* C38: a request rejected with 429 leaves every rate-limit cell unchanged
\* (neither count nor reset deadline), so rejected requests never extend
\* the lockout; every cell's count stays within 1..RATE_LIMIT.
C38_RejectedLeavesCells == []C38_State /\ [][C38_Step]_vars

\* C38 witness: a request was rejected after the clock had moved on inside
\* the window, and the cell still has the deadline its window opened with.
C38_Witness ==
  \E key \in clients :
    /\ reply.key = key /\ reply.status = 429
    /\ now > 0
    /\ now <= requestCounts[key].resetTime
    /\ requestCounts[key].count = RATE_LIMIT
    /\ requestCounts[key].resetTime = seen[key].open + RATE_WINDOW

====
